---- MODULE Spec2Model ----
(***************************************************************************)
(* catberry-l10n: the server-side LocalizationLoader (loading, merging and *)
(* caching of localization dictionaries) and the LocalizationProvider      *)
(* (get / pluralize) that queries it.                                      *)
(*                                                                         *)
(* Locale names are modelled as sequences of one-character strings so that *)
(* toLowerCase, the LOCALE_REGEXP test and split('-') are computed, not    *)
(* assumed.  Localization keys and values are TLA+ strings.                *)
(***************************************************************************)
EXTENDS Integers, Sequences, FiniteSets, TLC

VARIABLES
    placeholder,    \* config.l10n.placeholder (LocalizationProvider._placeholder)
    objectCache,    \* LocalizationLoader._objectCache : locale -> dictionary
    fileCache,      \* LocalizationLoader._fileCache   : locale -> text
    loadingCache,   \* LocalizationLoader._loadingCache : file -> parsed content
    files,          \* the l10n directories on disk: source -> locale -> parsed content
    inits,          \* the _init() calls in flight: id -> progress of its promise chain
    started,        \* number of _init() calls made so far
    prepared,       \* history: the `localizations` handed to the last _prepareCache callback
    sourced,        \* history: the files that the last finished _init applied, by source
    warned,         \* history: the duplicate-key 'warn' events of the last finished _init
    failed,         \* history: the sources whose chain emitted 'error' in the last finished _init
    notified,       \* history: the file of the last 'change' notification outside an l10n directory
    outcome,        \* history: the outcome event of the last finished _init ("none" before)
    lastCall        \* the load/get/pluralize call that is running, and what it returns

cacheVars == <<objectCache, fileCache, prepared, outcome>>
loaderVars == <<loadingCache, files, inits, started, sourced, warned, failed, notified>>

vars == <<placeholder, objectCache, fileCache, loadingCache, files, inits, started,
          prepared, sourced, warned, failed, notified, outcome, lastCall>>

----------------------------------------------------------------------------
(* Bounds of the model.                                                    *)

\* longest plural-form array that a source defines
MaxForms == 3
\* largest count for which the rules of the table are evaluated
MaxRuleCount == 125
\* number of _init() calls (rebuild triggers) in a behaviour of the loader
MaxInits == 2
\* counts n range over 0..MaxCount
MaxCount == 5

----------------------------------------------------------------------------
(* JavaScript strings and values.                                          *)

UpperLetters ==
    <<"A","B","C","D","E","F","G","H","I","J","K","L","M",
      "N","O","P","Q","R","S","T","U","V","W","X","Y","Z">>

LowerLetters ==
    <<"a","b","c","d","e","f","g","h","i","j","k","l","m",
      "n","o","p","q","r","s","t","u","v","w","x","y","z">>

LowerLetterSet == {LowerLetters[i] : i \in DOMAIN LowerLetters}

IsLowerLetter(c) == c \in LowerLetterSet

\* the lowercase letter of every uppercase letter
LowerOf ==
    [c \in {UpperLetters[i] : i \in DOMAIN UpperLetters} |->
        LowerLetters[CHOOSE i \in DOMAIN UpperLetters : UpperLetters[i] = c]]

toLowerCaseChar(c) == IF c \in DOMAIN LowerOf THEN LowerOf[c] ELSE c

\* mutant: the argument is not lowercased
toLowerCase_asIs(s) == s

\* String.prototype.toLowerCase
toLowerCase(s) == [i \in 1..Len(s) |-> toLowerCaseChar(s[i])]

\* LOCALE_REGEXP.test(s) for /^[a-z]{2}(-[a-z]{2})?$/
LOCALE_REGEXP_test(s) ==
    \/ /\ Len(s) = 2
       /\ IsLowerLetter(s[1]) /\ IsLowerLetter(s[2])
    \/ /\ Len(s) = 5
       /\ IsLowerLetter(s[1]) /\ IsLowerLetter(s[2])
       /\ s[3] = "-"
       /\ IsLowerLetter(s[4]) /\ IsLowerLetter(s[5])

\* s.indexOf('-') as a 1-based position, 0 when there is none (JavaScript: -1)
indexOfDash(s) ==
    IF \E i \in 1..Len(s) : s[i] = "-"
    THEN CHOOSE i \in 1..Len(s) : s[i] = "-" /\ \A j \in 1..(i - 1) : s[j] # "-"
    ELSE 0

\* s.split('-')[0]
splitFirst(s) ==
    IF indexOfDash(s) = 0 THEN s ELSE SubSeq(s, 1, indexOfDash(s) - 1)

\* A JavaScript value found in a dictionary: a string, an array of strings
\* (plural forms), an object (the $pluralization descriptor), or undefined.
Str(s) == [str |-> s]
Arr(a) == [arr |-> a]
Obj(o) == [obj |-> o]
Undefined == [undef |-> TRUE]

IsString(v) == "str" \in DOMAIN v
IsArray(v) == "arr" \in DOMAIN v
IsObjectValue(v) == "obj" \in DOMAIN v

\* JavaScript truthiness: '' and undefined are falsy, arrays and objects truthy
Truthy(v) ==
    IF IsString(v) THEN v.str # ""
    ELSE v # Undefined

\* String(v) of a string, an object or undefined
JsString(v) ==
    IF IsString(v) THEN v.str
    ELSE IF v = Undefined THEN "undefined"
    ELSE "[object Object]"

\* dict[key]
Lookup(dict, key) == IF key \in DOMAIN dict THEN dict[key] ELSE Undefined

\* {} / Object.create(null)
EmptyObject == [k \in {} |-> Undefined]

\* what a call gives back: a returned value or a thrown error
\* a file path: the directory as its segments and the file's name
Filename(directory, base) == [dir |-> directory, base |-> base]

\* no 'change' notification yet
NoFilename == Filename(<<>>, "")

Ret(v) == [ret |-> v]
Throw(m) == [throw |-> m]
IsThrow(r) == "throw" \in DOMAIN r

PLURALIZATION == "$pluralization"

----------------------------------------------------------------------------
(* Locales and keys of the model.                                          *)

ru == <<"r","u">>
en == <<"e","n">>
enGB == <<"e","n","-","g","b">>
fr == <<"f","r">>
frCA == <<"f","r","-","c","a">>
pt == <<"p","t">>
ptBR == <<"p","t","-","b","r">>

\* config.l10n.defaultLocale (the tests configure 'ru')
defaultLocale == ru

\* localization keys that sources define
Keys == {"K1", "K2"}

\* keys that callers ask for: the defined ones, the descriptor's, and one
\* that no source defines
QueryKeys == Keys \cup {PLURALIZATION, "MISSING_KEY"}

\* locale arguments that callers pass: empty, valid in either case, with a
\* region, unknown, and malformed
LocaleInputs ==
    { <<>>, ru, en, enGB, fr, <<"E","N">>, <<"E","n","-","G","B">>,
      <<"c","h","i","n","a">>, <<"e","n","_","g","b">> }

Counts == 0..MaxCount

----------------------------------------------------------------------------
(* Pluralization rules.                                                    *)

RU_RULE == "(n%10==1 && n%100!=11 ? 0 : n%10>=2 && n%10<=4 && (n%100<10 || n%100>=20) ? 1 : 2)"
EN_RULE == "(n != 1)"
FR_RULE == "(n > 1)"
DEFAULT_RULE == "0"

\* this._pluralizationMap built by _initPluralizationMap from
\* pluralizationRules.json: locale -> rule
pluralizationMap ==
    [l \in {ru, en, pt, ptBR} |->
        CASE l = ru -> RU_RULE
          [] l = en -> EN_RULE
          [] l = pt -> EN_RULE
          [] l = ptBR -> FR_RULE]

\* mutant: the entry of the primary subtag is tried before the entry of the
\* full identifier
_getPluralizationRule_subtagFirst(locale) ==
    IF indexOfDash(locale) - 1 > 0
          /\ SubSeq(locale, 1, indexOfDash(locale) - 1) \in DOMAIN pluralizationMap
    THEN pluralizationMap[SubSeq(locale, 1, indexOfDash(locale) - 1)]
    ELSE IF locale \in DOMAIN pluralizationMap
         THEN pluralizationMap[locale]
         ELSE DEFAULT_RULE

\* LocalizationLoader._getPluralizationRule(locale)
_getPluralizationRule(locale) ==
    IF locale \in DOMAIN pluralizationMap
    THEN pluralizationMap[locale]
    ELSE IF indexOfDash(locale) - 1 > 0
              /\ SubSeq(locale, 1, indexOfDash(locale) - 1) \in DOMAIN pluralizationMap
         THEN pluralizationMap[SubSeq(locale, 1, indexOfDash(locale) - 1)]
         ELSE DEFAULT_RULE

\* mutant: the Russian rule without its conditions on n%100
RuleIndex_noHundreds(rule, n) ==
    CASE rule = RU_RULE ->
            IF n % 10 = 1 THEN 0
            ELSE IF n % 10 >= 2 /\ n % 10 <= 4 THEN 1
            ELSE 2
      [] rule = EN_RULE -> IF n # 1 THEN 1 ELSE 0
      [] rule = FR_RULE -> IF n > 1 THEN 1 ELSE 0
      [] rule = DEFAULT_RULE -> 0
      [] rule = "" -> 0

\* Number(<rule>) with n bound to the count: the index the rule selects
RuleIndex(rule, n) ==
    CASE rule = RU_RULE ->
            IF n % 10 = 1 /\ n % 100 # 11 THEN 0
            ELSE IF n % 10 >= 2 /\ n % 10 <= 4 /\ (n % 100 < 10 \/ n % 100 >= 20) THEN 1
            ELSE 2
      [] rule = EN_RULE -> IF n # 1 THEN 1 ELSE 0
      [] rule = FR_RULE -> IF n > 1 THEN 1 ELSE 0
      [] rule = DEFAULT_RULE -> 0
      [] rule = "" -> 0

\* a rule text that is not a JavaScript expression
MalformedRule == "(n %"

\* new Function('n', 'pluralForms', `var index = Number(${rule}); ...`)
\* returns a function: it throws a SyntaxError for a text that is not an
\* expression
Compiles(rule) == rule # MalformedRule

\* the function built by LocalizationProvider._getPluralizationRuleFunction:
\* String(pluralForms[Number(rule)])
ruleFunction(rule, n, pluralForms) ==
    IF RuleIndex(rule, n) + 1 \in DOMAIN pluralForms
    THEN pluralForms[RuleIndex(rule, n) + 1]
    ELSE "undefined"

----------------------------------------------------------------------------
(* LocalizationLoader: merging and caching.                                *)

\* mutant: a key of the default dictionary is not overwritten by the locale's value
mergeLocalizations_baseWins(base, extend) ==
    LET baseKeys == IF base # Undefined THEN DOMAIN base ELSE {}
        extendKeys == IF extend # Undefined THEN DOMAIN extend ELSE {}
    IN  [result |-> [key \in baseKeys \cup extendKeys |->
                        IF key \in baseKeys THEN base[key] ELSE extend[key]],
         fromDefault |-> {key \in baseKeys : IsArray(base[key])} \ extendKeys]

\* mutant: the keys of the default dictionary are not copied
mergeLocalizations_noBase(base, extend) ==
    LET extendKeys == IF extend # Undefined THEN DOMAIN extend ELSE {}
    IN  [result |-> [key \in extendKeys |-> extend[key]],
         fromDefault |-> {}]

\* mutant: a key that the locale overrides stays marked as taken from the default
mergeLocalizations_marksKept(base, extend) ==
    LET baseKeys == IF base # Undefined THEN DOMAIN base ELSE {}
        extendKeys == IF extend # Undefined THEN DOMAIN extend ELSE {}
    IN  [result |-> [key \in baseKeys \cup extendKeys |->
                        IF key \in extendKeys THEN extend[key] ELSE base[key]],
         fromDefault |-> {key \in baseKeys : IsArray(base[key])}]

\* mergeLocalizations(base, extend, fromDefault): the merged dictionary and
\* the keys left in fromDefault; base is Undefined when there is no default
\* dictionary
mergeLocalizations(base, extend) ==
    LET baseKeys == IF base # Undefined THEN DOMAIN base ELSE {}
        extendKeys == IF extend # Undefined THEN DOMAIN extend ELSE {}
    IN  [result |-> [key \in baseKeys \cup extendKeys |->
                        IF key \in extendKeys THEN extend[key] ELSE base[key]],
         fromDefault |-> {key \in baseKeys : IsArray(base[key])} \ extendKeys]

\* mutant: the descriptor of a locale names the locale's own rule as defaultRule
PreparedDictionary_ownDefaultRule(localizations, locale) ==
    IF locale # defaultLocale
    THEN LET merged == mergeLocalizations(
                           Lookup(localizations, defaultLocale),
                           localizations[locale])
         IN  [key \in DOMAIN merged.result \cup {PLURALIZATION} |->
                 IF key = PLURALIZATION
                 THEN Obj([rule |-> _getPluralizationRule(locale),
                           defaultRule |-> _getPluralizationRule(locale),
                           fromDefaultLocale |-> merged.fromDefault])
                 ELSE merged.result[key]]
    ELSE IF ~Truthy(Lookup(localizations[locale], PLURALIZATION))
         THEN [key \in DOMAIN localizations[locale] \cup {PLURALIZATION} |->
                 IF key = PLURALIZATION
                 THEN Obj([rule |-> _getPluralizationRule(locale)])
                 ELSE localizations[locale][key]]
         ELSE localizations[locale]

\* mutant: the descriptor that the default locale defines as data is replaced
PreparedDictionary_replacesData(localizations, locale) ==
    IF locale # defaultLocale
    THEN LET merged == mergeLocalizations(
                           Lookup(localizations, defaultLocale),
                           localizations[locale])
         IN  [key \in DOMAIN merged.result \cup {PLURALIZATION} |->
                 IF key = PLURALIZATION
                 THEN Obj([rule |-> _getPluralizationRule(locale),
                           defaultRule |-> _getPluralizationRule(defaultLocale),
                           fromDefaultLocale |-> merged.fromDefault])
                 ELSE merged.result[key]]
    ELSE [key \in DOMAIN localizations[locale] \cup {PLURALIZATION} |->
             IF key = PLURALIZATION
             THEN Obj([rule |-> _getPluralizationRule(locale)])
             ELSE localizations[locale][key]]

\* mutant: the default dictionary is stored without a descriptor
PreparedDictionary_bareDefault(localizations, locale) ==
    IF locale # defaultLocale
    THEN LET merged == mergeLocalizations(
                           Lookup(localizations, defaultLocale),
                           localizations[locale])
         IN  [key \in DOMAIN merged.result \cup {PLURALIZATION} |->
                 IF key = PLURALIZATION
                 THEN Obj([rule |-> _getPluralizationRule(locale),
                           defaultRule |-> _getPluralizationRule(defaultLocale),
                           fromDefaultLocale |-> merged.fromDefault])
                 ELSE merged.result[key]]
    ELSE localizations[locale]

\* the dictionary that the callback of _prepareCache stores for one locale
PreparedDictionary(localizations, locale) ==
    IF locale # defaultLocale
    THEN LET merged == mergeLocalizations(
                           Lookup(localizations, defaultLocale),
                           localizations[locale])
         IN  [key \in DOMAIN merged.result \cup {PLURALIZATION} |->
                 IF key = PLURALIZATION
                 THEN Obj([rule |-> _getPluralizationRule(locale),
                           defaultRule |-> _getPluralizationRule(defaultLocale),
                           fromDefaultLocale |-> merged.fromDefault])
                 ELSE merged.result[key]]
    ELSE IF ~Truthy(Lookup(localizations[locale], PLURALIZATION))
         THEN [key \in DOMAIN localizations[locale] \cup {PLURALIZATION} |->
                 IF key = PLURALIZATION
                 THEN Obj([rule |-> _getPluralizationRule(locale)])
                 ELSE localizations[locale][key]]
         ELSE localizations[locale]

\* this._objectCache after the callback of _prepareCache
PreparedObjectCache(localizations) ==
    [locale \in DOMAIN localizations |-> PreparedDictionary(localizations, locale)]

\* the order in which JSON.stringify writes the keys of the model
KeyOrder == <<"K1", "K2", PLURALIZATION>>

\* `window.localization = ${JSON.stringify(dictionary)}`
LocalizationFile(dictionary) ==
    <<"window.localization = ",
      SelectSeq([i \in DOMAIN KeyOrder |->
                    IF KeyOrder[i] \in DOMAIN dictionary
                    THEN <<KeyOrder[i], dictionary[KeyOrder[i]]>>
                    ELSE <<>>],
                LAMBDA pair : pair # <<>>)>>

\* mutant: 'l10nLoaded' is emitted whatever the caches hold
InitOutcome_alwaysLoaded(cache) == [event |-> "l10nLoaded"]

\* mutant: a default dictionary without any key of its sources is refused
InitOutcome_refusesEmpty(cache) ==
    IF defaultLocale \in DOMAIN cache /\ DOMAIN cache[defaultLocale] # {PLURALIZATION}
    THEN [event |-> "l10nLoaded"]
    ELSE [event |-> "error", reason |-> <<"Can not load default locale ", defaultLocale>>]

\* the event that _init emits after _prepareCache: 'l10nLoaded', or 'error'
\* with the Error thrown by the check of the default dictionary
InitOutcome(cache) ==
    IF defaultLocale \in DOMAIN cache
    THEN [event |-> "l10nLoaded"]
    ELSE [event |-> "error", reason |-> <<"Can not load default locale ", defaultLocale>>]

\* mutant: no fallback to the dictionary of the primary subtag
load_noSubtag(locale) ==
    LET name == toLowerCase(IF locale = <<>> THEN defaultLocale ELSE locale)
    IN  IF ~LOCALE_REGEXP_test(name)
        THEN Throw("Wrong locale name")
        ELSE IF name \in DOMAIN objectCache
        THEN Ret(objectCache[name])
        ELSE IF defaultLocale \in DOMAIN objectCache
        THEN Ret(objectCache[defaultLocale])
        ELSE Ret(EmptyObject)

\* mutant: a valid locale for which no dictionary is committed is refused
load_refusesUnknown(locale) ==
    LET name == toLowerCase(IF locale = <<>> THEN defaultLocale ELSE locale)
        firstLocaleComponent == splitFirst(name)
    IN  IF ~LOCALE_REGEXP_test(name)
        THEN Throw("Wrong locale name")
        ELSE IF name \in DOMAIN objectCache
        THEN Ret(objectCache[name])
        ELSE IF firstLocaleComponent # name /\ firstLocaleComponent \in DOMAIN objectCache
        THEN Ret(objectCache[firstLocaleComponent])
        ELSE IF defaultLocale \in DOMAIN objectCache
        THEN Ret(objectCache[defaultLocale])
        ELSE Throw("Wrong locale name")

\* mutant: a valid locale is refused with an error of its own while the
\* cache holds no dictionary at all
load_notInitialized(locale) ==
    LET name == toLowerCase(IF locale = <<>> THEN defaultLocale ELSE locale)
        firstLocaleComponent == splitFirst(name)
    IN  IF ~LOCALE_REGEXP_test(name)
        THEN Throw("Wrong locale name")
        ELSE IF DOMAIN objectCache = {}
        THEN Throw("Not initialized")
        ELSE IF name \in DOMAIN objectCache
        THEN Ret(objectCache[name])
        ELSE IF firstLocaleComponent # name /\ firstLocaleComponent \in DOMAIN objectCache
        THEN Ret(objectCache[firstLocaleComponent])
        ELSE IF defaultLocale \in DOMAIN objectCache
        THEN Ret(objectCache[defaultLocale])
        ELSE Ret(EmptyObject)

\* LocalizationLoader.load(locale)
load(locale) ==
    LET name == toLowerCase(IF locale = <<>> THEN defaultLocale ELSE locale)
        firstLocaleComponent == splitFirst(name)
    IN  IF ~LOCALE_REGEXP_test(name)
        THEN Throw("Wrong locale name")
        ELSE IF name \in DOMAIN objectCache
        THEN Ret(objectCache[name])
        ELSE IF firstLocaleComponent # name /\ firstLocaleComponent \in DOMAIN objectCache
        THEN Ret(objectCache[firstLocaleComponent])
        ELSE IF defaultLocale \in DOMAIN objectCache
        THEN Ret(objectCache[defaultLocale])
        ELSE Ret(EmptyObject)

----------------------------------------------------------------------------
(* LocalizationProvider.                                                   *)

\* mutant: the placeholder flag is ignored
_notFound_empty(key) == ""

\* LocalizationProvider._notFound(key)
_notFound(key) == IF placeholder THEN key ELSE ""

\* value || this._notFound(key), as a string
OrNotFound(value, key) ==
    IF Truthy(value) THEN JsString(value) ELSE _notFound(key)

\* LocalizationProvider.get(locale, key)
get(locale, key) ==
    LET loaded == load(locale)
    IN  IF IsThrow(loaded) THEN loaded
        ELSE LET value == Lookup(loaded.ret, key)
                 first == IF IsArray(value)
                          THEN IF Len(value.arr) > 0 THEN Str(value.arr[1]) ELSE Undefined
                          ELSE value
             IN  Ret(OrNotFound(first, key))

\* mutant: the dictionary's own rule also for the keys taken from the default
PluralizationRuleOf_ownRule(localeObject, key) ==
    localeObject[PLURALIZATION].obj.rule

\* the rule that pluralize takes from the dictionary's $pluralization
PluralizationRuleOf(localeObject, key) ==
    LET descriptor == localeObject[PLURALIZATION].obj
        rule == IF "fromDefaultLocale" \in DOMAIN descriptor
                   /\ key \in descriptor.fromDefaultLocale
                THEN descriptor.defaultRule
                ELSE descriptor.rule
    IN  rule

\* mutant: a value that is not an array is returned without the missing-value fallback
pluralize_noFallback(locale, key, n) ==
    LET loaded == load(locale)
    IN  IF IsThrow(loaded) THEN loaded
        ELSE LET forms == Lookup(loaded.ret, key)
             IN  IF ~Truthy(forms) /\ placeholder
                 THEN Ret(key)
                 ELSE IF ~IsArray(forms)
                 THEN Ret(JsString(forms))
                 ELSE IF ~IsObjectValue(Lookup(loaded.ret, PLURALIZATION))
                 THEN Throw("TypeError")
                 ELSE LET form == ruleFunction(
                                      PluralizationRuleOf(loaded.ret, key), n, forms.arr)
                      IN  Ret(IF form # "undefined" THEN form ELSE _notFound(key))

\* mutant: the text of a form that the array does not have is returned as it is
pluralize_rawForm(locale, key, n) ==
    LET loaded == load(locale)
    IN  IF IsThrow(loaded) THEN loaded
        ELSE LET forms == Lookup(loaded.ret, key)
             IN  IF ~Truthy(forms) /\ placeholder
                 THEN Ret(key)
                 ELSE IF ~IsArray(forms)
                 THEN Ret(OrNotFound(forms, key))
                 ELSE IF ~IsObjectValue(Lookup(loaded.ret, PLURALIZATION))
                 THEN Throw("TypeError")
                 ELSE Ret(ruleFunction(PluralizationRuleOf(loaded.ret, key), n, forms.arr))

\* LocalizationProvider.pluralize(locale, key, n)
pluralize(locale, key, n) ==
    LET loaded == load(locale)
    IN  IF IsThrow(loaded) THEN loaded
        ELSE LET forms == Lookup(loaded.ret, key)
             IN  IF ~Truthy(forms) /\ placeholder
                 THEN Ret(key)
                 ELSE IF ~IsArray(forms)
                 THEN Ret(OrNotFound(forms, key))
                 ELSE IF ~IsObjectValue(Lookup(loaded.ret, PLURALIZATION))
                 THEN Throw("TypeError")
                 ELSE IF ~Compiles(PluralizationRuleOf(loaded.ret, key))
                 THEN Throw("SyntaxError")
                 ELSE LET form == ruleFunction(
                                      PluralizationRuleOf(loaded.ret, key), n, forms.arr)
                      IN  Ret(IF form # "undefined" THEN form ELSE _notFound(key))

----------------------------------------------------------------------------
(* The dictionaries that the sources of the model define.                  *)

DefaultForms == <<"f0", "f1", "f2", "f3", "f4", "f5">>
EnForms == <<"e0", "e1", "e2", "e3", "e4", "e5">>

FormsOf(names, len) == Arr(SubSeq(names, 1, len))

\* a $pluralization descriptor that a source of the default locale may define as data
DataDescriptor == Obj([rule |-> FR_RULE])

\* a descriptor defined as data whose rule is not an expression
MalformedDescriptor == Obj([rule |-> MalformedRule])

\* values that the sources of a locale may give to a key
SourceValues(locale, key) ==
    CASE locale = defaultLocale /\ key = "K1" ->
            {Str("a"), Str("")} \cup {FormsOf(DefaultForms, len) : len \in 0..MaxForms}
      [] locale = defaultLocale /\ key = "K2" -> {FormsOf(DefaultForms, MaxForms)}
      [] locale = defaultLocale /\ key = PLURALIZATION -> {DataDescriptor}
      [] locale = en /\ key = "K1" ->
            {Str("b"), FormsOf(EnForms, 2), FormsOf(EnForms, MaxForms)}
      [] locale = en /\ key = "K2" -> {Str("b")}
      [] locale = enGB /\ key = "K1" -> {Str("c")}
      [] locale = enGB /\ key = PLURALIZATION -> {DataDescriptor}
      [] OTHER -> {}

\* the combined dictionaries that the sources of a locale may produce
SourceDictionaries(locale) ==
    LET usable == {key \in Keys \cup {PLURALIZATION} : SourceValues(locale, key) # {}}
    IN  UNION { {d \in [ks -> UNION {SourceValues(locale, key) : key \in ks}] :
                    \A key \in ks : d[key] \in SourceValues(locale, key)} :
                ks \in SUBSET usable }

SourceLocales == {ru, en, enGB}

\* no file of the locale in any source
NoDictionary == [none |-> TRUE]

\* `localizations` after the files of one locale changed so that they combine
\* to `dictionary` (NoDictionary: no source has a file of the locale any more)
WithDictionary(localizations, locale, dictionary) ==
    [l \in IF dictionary = NoDictionary
           THEN DOMAIN localizations \ {locale}
           ELSE DOMAIN localizations \cup {locale} |->
        IF l = locale THEN dictionary ELSE localizations[l]]

----------------------------------------------------------------------------
(* Steps.                                                                  *)

\* no call of load, get or pluralize is running
NoCall == [op |-> "none"]

\* the callback of _prepareCache followed by the callbacks of _init:
\* both caches are replaced, then the default dictionary is looked for and
\* 'l10nLoaded' or 'error' is emitted.  A callback runs only when no call is
\* on the stack.
PrepareCache(localizations) ==
    /\ lastCall = NoCall
    /\ objectCache' = PreparedObjectCache(localizations)
    /\ fileCache' = [locale \in DOMAIN objectCache' |-> LocalizationFile(objectCache'[locale])]
    /\ prepared' = localizations
    /\ outcome' = InitOutcome(objectCache')
    /\ UNCHANGED <<placeholder, lastCall>>

\* a caller calls loader.load(locale)
CallLoad(locale) ==
    /\ lastCall = NoCall
    /\ lastCall' = [op |-> "load", locale |-> locale, result |-> load(locale)]
    /\ UNCHANGED <<placeholder, cacheVars, loaderVars>>

\* mutant: a get that also empties the loading cache
CallGet_dropsLoadingCache(locale, key) ==
    /\ lastCall = NoCall
    /\ lastCall' = [op |-> "get", locale |-> locale, key |-> key,
                    result |-> get(locale, key)]
    /\ loadingCache' = [f \in {} |-> EmptyObject]
    /\ UNCHANGED <<placeholder, cacheVars, files, inits, started, sourced, warned, failed, notified>>

\* a caller calls provider.get(locale, key)
CallGet(locale, key) ==
    /\ lastCall = NoCall
    /\ lastCall' = [op |-> "get", locale |-> locale, key |-> key,
                    result |-> get(locale, key)]
    /\ UNCHANGED <<placeholder, cacheVars, loaderVars>>

\* a caller calls provider.pluralize(locale, key, n)
CallPluralize(locale, key, n) ==
    /\ lastCall = NoCall
    /\ lastCall' = [op |-> "pluralize", locale |-> locale, key |-> key, n |-> n,
                    result |-> pluralize(locale, key, n)]
    /\ UNCHANGED <<placeholder, cacheVars, loaderVars>>

\* the call returns (or its error propagates) to the caller
Return ==
    /\ lastCall # NoCall
    /\ lastCall' = NoCall
    /\ UNCHANGED <<placeholder, cacheVars, loaderVars>>

\* the arguments of the recorded calls
CallLocales == {<<"E","N">>, <<"E","n","-","G","B">>}
CallKeys == {"K1", "MISSING_KEY"}
CallCounts == {5}

----------------------------------------------------------------------------
(* The caches and the queries on them: every rebuild commits the           *)
(* dictionaries of some set of sources.                                    *)

\* the state after the constructor of LocalizationLoader (and of
\* LocalizationProvider)
Constructed ==
    /\ placeholder \in BOOLEAN
    /\ objectCache = [l \in {} |-> EmptyObject]
    /\ fileCache = [l \in {} |-> <<>>]
    /\ loadingCache = [f \in {} |-> EmptyObject]
    /\ inits = [id \in {} |-> EmptyObject]
    /\ started = 0
    /\ prepared = [l \in {} |-> EmptyObject]
    /\ sourced = [s \in {} |-> EmptyObject]
    /\ warned = [s \in {} |-> {}]
    /\ failed = {}
    /\ notified = NoFilename
    /\ outcome = [event |-> "none"]
    /\ lastCall = NoCall

InitCache ==
    /\ Constructed
    /\ files = [s \in {} |-> EmptyObject]

\* a file of one locale is added, changed or removed and the rebuild that the
\* notification starts resolves with the new combined dictionaries
Rebuild(locale, dictionary) ==
    /\ PrepareCache(WithDictionary(prepared, locale, dictionary))
    /\ UNCHANGED loaderVars

NextCache ==
    \/ \E locale \in SourceLocales :
           \E dictionary \in SourceDictionaries(locale) \cup {NoDictionary} :
               Rebuild(locale, dictionary)
    \/ \E locale \in CallLocales : CallLoad(locale)
    \/ \E locale \in CallLocales, key \in CallKeys : CallGet(locale, key)
    \/ \E locale \in CallLocales, key \in CallKeys, n \in CallCounts :
           CallPluralize(locale, key, n)
    \/ Return

SpecCache == InitCache /\ [][NextCache]_vars

----------------------------------------------------------------------------
(* The caches and the queries when the sources of the default locale may   *)
(* define a descriptor whose rule is not an expression.                    *)

\* the combined dictionaries of the default locale with such a descriptor
MalformedDictionaries ==
    {[d EXCEPT ![PLURALIZATION] = MalformedDescriptor] :
        d \in {x \in SourceDictionaries(defaultLocale) :
                  /\ PLURALIZATION \in DOMAIN x
                  /\ "K1" \in DOMAIN x
                  /\ x["K1"] \in {Str("a"), FormsOf(DefaultForms, MaxForms)}}}

\* the locale arguments of the recorded calls: the default locale and a
\* locale that the default dictionary serves
RuleCallLocales == {ru, fr}

NextRules ==
    \/ \E dictionary \in SourceDictionaries(defaultLocale) \cup MalformedDictionaries
                            \cup {NoDictionary} :
           Rebuild(defaultLocale, dictionary)
    \/ \E dictionary \in SourceDictionaries(en) \cup {NoDictionary} :
           Rebuild(en, dictionary)
    \/ \E locale \in RuleCallLocales : CallGet(locale, "K1")
    \/ \E locale \in RuleCallLocales : CallPluralize(locale, "K1", MaxCount)
    \/ Return

SpecRules == InitCache /\ [][NextRules]_vars

----------------------------------------------------------------------------
(* The loader: _init() reads the root l10n directory, then the l10n        *)
(* directories of all components concurrently, and commits the caches.     *)
(* Every step below is one completion callback of a file-system request    *)
(* together with the promise reactions that run right after it.            *)

\* the application root and the components in the order of discovery
\* (the order of Object.keys(components))
Root == "root"
ComponentNames == <<"component1", "component2">>
Components == {ComponentNames[i] : i \in DOMAIN ComponentNames}
Sources == {Root} \cup Components

\* a read request that has not completed yet
Pending(content) == [pending |-> content]

IsPending(read) == "pending" \in DOMAIN read

\* a parsed file whose values name the directory that holds the file
FileOf(source, keys) == [k \in keys |-> Str(source)]

\* the contents that <source>/l10n/<locale>.json can have
FileContents(source, locale) ==
    CASE source = Root /\ locale = ru -> {FileOf(Root, {"K1"}), FileOf(Root, {"K1", "K2"})}
      [] source = Root /\ locale = en -> {FileOf(Root, {"K1"})}
      [] source = "component1" /\ locale = en ->
             {FileOf("component1", {"K1"}), FileOf("component1", {"K1", "K2"})}
      [] source = "component1" /\ locale = ru -> {FileOf("component1", {"K2"})}
      [] source = "component2" /\ locale = en ->
             {FileOf("component2", {"K1"}), FileOf("component2", {"K2"})}
      [] OTHER -> {}

FileLocales == {ru, en}

\* the l10n directories that the disk can hold: per locale either no file
\* or a file with one of its contents
Directories(source) ==
    UNION {[ls -> UNION {FileContents(source, l) : l \in ls}] : ls \in SUBSET FileLocales}

DirectoryOf(source) ==
    {d \in Directories(source) : \A l \in DOMAIN d : d[l] \in FileContents(source, l)}


\* mutant: a key that is already in `localizations` is not overridden
ApplyFile_keepFirst(dictionary, file) ==
    [k \in DOMAIN dictionary \cup DOMAIN file |->
        IF k \in DOMAIN dictionary THEN dictionary[k] ELSE file[k]]

\* the inner forEach of _loadLocalizationsFromPath: every key of the file is
\* assigned, overriding the key if it is there
ApplyFile(dictionary, file) ==
    [k \in DOMAIN dictionary \cup DOMAIN file |->
        IF k \in DOMAIN file THEN file[k] ELSE dictionary[k]]

\* files.forEach of _loadLocalizationsFromPath: every file of the directory
\* is applied to the map shared by the whole _loadLocalizations call
ApplyFiles(localizations, read) ==
    [l \in DOMAIN localizations \cup DOMAIN read |->
        IF l \in DOMAIN read
        THEN ApplyFile(IF l \in DOMAIN localizations THEN localizations[l] ELSE EmptyObject,
                       read[l])
        ELSE localizations[l]]

NothingRead == [l \in {} |-> EmptyObject]

\* mutant: a key is reported whenever it is written
DuplicateKeys_everyWrite(localizations, read) ==
    UNION {{<<l, k>> : k \in DOMAIN read[l]} : l \in DOMAIN read}

\* the 'warn' events of files.forEach for one directory: the keys of its
\* files that are already in `localizations` when they are assigned
DuplicateKeys(localizations, read) ==
    UNION {{<<l, k>> : k \in DOMAIN read[l] \cap DOMAIN localizations[l]} :
              l \in DOMAIN read \cap DOMAIN localizations}

\* a fresh _loadLocalizations chain: `const localizations = {}`, nothing
\* requested yet
NewInit ==
    [localizations |-> [l \in {} |-> EmptyObject],
     dirs |-> [s \in Sources |-> "idle"],
     reads |-> [s \in Sources |-> NothingRead],
     got |-> [s \in Sources |-> NothingRead],
     warned |-> [s \in Sources |-> {}],
     failed |-> {}]

\* the directory whose requests the chain may issue: the root first, the
\* components only after the root directory was applied
MayStart(init, source) ==
    /\ init.dirs[source] = "idle"
    /\ source \in Components => init.dirs[Root] = "applied"

HasPending(read) == \E l \in DOMAIN read : IsPending(read[l])

\* a file whose text is not JSON: JSON.parse(file) throws
Broken == [broken |-> TRUE]

IsBroken(content) == "broken" \in DOMAIN content

\* the promise of one of the directory's files is rejected
HasBroken(read) == \E l \in DOMAIN read : IsBroken(read[l])


\* mutant: a rejected read leaves the chain of its directory unsettled
Settle_failureNeverSettles(init, source, read) ==
    IF HasBroken(read) \/ HasPending(read)
    THEN [init EXCEPT !.dirs[source] = "reading",
                      !.reads[source] = [l \in {k \in DOMAIN read : IsPending(read[k])} |-> read[l]]]
    ELSE [init EXCEPT !.dirs[source] = "applied",
                      !.reads[source] = NothingRead,
                      !.got[source] = read,
                      !.warned[source] = DuplicateKeys(init.localizations, read),
                      !.localizations = ApplyFiles(init.localizations, read)]

\* Promise.all(promises).then(files => ...).catch(...) of one directory:
\* when a read of the directory is rejected nothing is applied, 'error' is
\* emitted and the chain of the directory is fulfilled like an applied one;
\* otherwise, when no read of the directory is pending, its files are applied
Settle(init, source, read) ==
    IF HasBroken(read)
    THEN [init EXCEPT !.dirs[source] = "applied",
                      !.reads[source] = NothingRead,
                      !.failed = @ \cup {source}]
    ELSE IF HasPending(read)
    THEN [init EXCEPT !.dirs[source] = "reading", !.reads[source] = read]
    ELSE [init EXCEPT !.dirs[source] = "applied",
                      !.reads[source] = NothingRead,
                      !.got[source] = read,
                      !.warned[source] = DuplicateKeys(init.localizations, read),
                      !.localizations = ApplyFiles(init.localizations, read)]

\* Promise.all(promises) of _loadLocalizations is fulfilled
AllApplied(init) == \A s \in Sources : init.dirs[s] = "applied"

Without(f, x) == [y \in DOMAIN f \ {x} |-> f[y]]
With(f, x, v) == [y \in DOMAIN f \cup {x} |-> IF y = x THEN v ELSE f[y]]

\* mutant: the caches are prepared from `localizations` whenever a directory
\* settles, not only when all directories are applied
Continue_commitsEarly(id, init) ==
    /\ PrepareCache(init.localizations)
    /\ sourced' = init.got
    /\ warned' = init.warned
    /\ failed' = init.failed
    /\ inits' = IF AllApplied(init) THEN Without(inits, id) ELSE With(inits, id, init)

\* the chain of `id` goes on as `init`; when all its directories are applied
\* the callback of _prepareCache and the callbacks of _init run
Continue(id, init) ==
    IF AllApplied(init)
    THEN /\ PrepareCache(init.localizations)
         /\ sourced' = init.got
         /\ warned' = init.warned
         /\ failed' = init.failed
         /\ inits' = Without(inits, id)
    ELSE /\ lastCall = NoCall
         /\ inits' = With(inits, id, init)
         /\ UNCHANGED <<placeholder, cacheVars, sourced, warned, failed, lastCall>>

\* _init(): a new chain starts (fs.exists of the root directory is requested);
\* like every callback it runs only when no call is on the stack
_init ==
    /\ lastCall = NoCall
    /\ started < MaxInits
    /\ started' = started + 1
    /\ inits' = With(inits, started + 1, NewInit)

\* 'allComponentsLoaded' of the component finder (constructor, line 792)
AllComponentsLoaded ==
    /\ _init
    /\ UNCHANGED <<placeholder, cacheVars, loadingCache, files, sourced, warned, failed, notified, lastCall>>

\* the 'change' handler of _watchChanges for a file of a component's l10n
\* directory whose content was replaced: the cache entry is dropped and
\* _init() is called
Change(component, locale, content) ==
    /\ locale \in DOMAIN files[component]
    /\ content # files[component][locale]
    /\ files' = [files EXCEPT ![component][locale] = content]
    /\ loadingCache' = Without(loadingCache, <<component, locale>>)
    /\ _init
    /\ UNCHANGED <<placeholder, cacheVars, sourced, warned, failed, notified, lastCall>>

\* fs.readdir of a directory completes: cached files resolve at once, the
\* others are requested with fs.readFile
ReadDir(id, source) ==
    /\ id \in DOMAIN inits
    /\ MayStart(inits[id], source)
    /\ LET read == [l \in DOMAIN files[source] |->
                       IF <<source, l>> \in DOMAIN loadingCache
                       THEN loadingCache[<<source, l>>]
                       ELSE Pending(files[source][l])]
       IN Continue(id, Settle(inits[id], source, read))
    /\ UNCHANGED <<loadingCache, files, started, notified>>

\* fs.readFile of one file completes with the content the file had when
\* the read was requested or has now: it is parsed and stored in
\* _loadingCache, unless JSON.parse throws
ReadFile(id, source, locale) ==
    /\ id \in DOMAIN inits
    /\ locale \in DOMAIN inits[id].reads[source]
    /\ IsPending(inits[id].reads[source][locale])
    /\ locale \in DOMAIN files[source]
    /\ \E content \in {inits[id].reads[source][locale].pending, files[source][locale]} :
           /\ loadingCache' = IF IsBroken(content) THEN loadingCache
                              ELSE With(loadingCache, <<source, locale>>, content)
           /\ Continue(id, Settle(inits[id], source,
                                  [inits[id].reads[source] EXCEPT ![locale] = content]))
    /\ UNCHANGED <<files, started, notified>>

Init ==
    /\ Constructed
    /\ files \in {d \in [Sources -> UNION {DirectoryOf(s) : s \in Sources}] :
                     \A s \in Sources : d[s] \in DirectoryOf(s)}

Next ==
    \/ AllComponentsLoaded
    \/ \E component \in Components, locale \in FileLocales :
           \E content \in FileContents(component, locale) :
               Change(component, locale, content)
    \/ \E id \in 1..MaxInits, source \in Sources : ReadDir(id, source)
    \/ \E id \in 1..MaxInits, source \in Sources, locale \in FileLocales :
           ReadFile(id, source, locale)

Spec == Init /\ [][Next]_vars

----------------------------------------------------------------------------
(* The loader under notifications that arrive one rebuild at a time: the   *)
(* component finder reports added, changed and removed components, and     *)
(* files of the root directory, which is not watched, change silently.     *)

\* no _loadLocalizations chain is in flight
Idle == DOMAIN inits = {}

\* 'allComponentsLoaded' while no rebuild is in flight
AllComponentsLoadedIdle == Idle /\ AllComponentsLoaded

\* the 'change' handler for a component's file while no rebuild is in flight
ChangeIdle(component, locale, content) == Idle /\ Change(component, locale, content)

\* the 'add' handler of _watchChanges: a component with this l10n directory
\* is found from now on, and _init() is called
Add(component, directory) ==
    /\ Idle
    /\ files[component] = NothingRead
    /\ directory # NothingRead
    /\ files' = [files EXCEPT ![component] = directory]
    /\ _init
    /\ UNCHANGED <<placeholder, cacheVars, loadingCache, sourced, warned, failed, notified, lastCall>>

\* the 'unlink' handler of _watchChanges: the component is not found any
\* more, the cache entries of its l10n directory are deleted and _init() is
\* called
Unlink(component) ==
    /\ Idle
    /\ files[component] # NothingRead
    /\ files' = [files EXCEPT ![component] = NothingRead]
    /\ loadingCache' = [f \in {g \in DOMAIN loadingCache : g[1] # component} |->
                           loadingCache[f]]
    /\ _init
    /\ UNCHANGED <<placeholder, cacheVars, sourced, warned, failed, notified, lastCall>>

\* a file of the root l10n directory is rewritten on disk; no handler runs
EditRoot(locale, content) ==
    /\ Idle
    /\ locale \in DOMAIN files[Root]
    /\ content # files[Root][locale]
    /\ files' = [files EXCEPT ![Root][locale] = content]
    /\ UNCHANGED <<placeholder, cacheVars, loadingCache, inits, started, sourced, warned, failed, notified, lastCall>>

NextWatch ==
    \/ AllComponentsLoadedIdle
    \/ \E component \in Components, locale \in FileLocales :
           \E content \in FileContents(component, locale) :
               ChangeIdle(component, locale, content)
    \/ \E component \in Components : \E directory \in DirectoryOf(component) :
           Add(component, directory)
    \/ \E component \in Components : Unlink(component)
    \/ \E locale \in FileLocales : \E content \in FileContents(Root, locale) :
           EditRoot(locale, content)
    \/ \E id \in 1..MaxInits, source \in Sources : ReadDir(id, source)
    \/ \E id \in 1..MaxInits, source \in Sources, locale \in FileLocales :
           ReadFile(id, source, locale)

SpecWatch == Init /\ [][NextWatch]_vars

----------------------------------------------------------------------------
(* The loader serving load, get and pluralize while it rebuilds.           *)

\* the application with a default dictionary: root defines ru and en, and
\* component1 overrides a key of en
DefaultAndComponent ==
    [s \in Sources |->
        CASE s = Root -> (ru :> FileOf(Root, {"K1", "K2"})) @@ (en :> FileOf(Root, {"K1"}))
          [] s = "component1" -> (en :> FileOf("component1", {"K1"}))
          [] OTHER -> NothingRead]

\* the application without a file of the default locale
NoDefault ==
    [s \in Sources |->
        CASE s = "component1" -> (en :> FileOf("component1", {"K1"}))
          [] OTHER -> NothingRead]

ServedFiles == {DefaultAndComponent, NoDefault}

\* the arguments of the calls made while the loader works
ServeLocales == {<<"E","N">>, <<"e","n","_","g","b">>}

InitServe ==
    /\ Constructed
    /\ files \in ServedFiles

NextServe ==
    \/ Next
    \/ \E locale \in ServeLocales : CallLoad(locale)
    \/ CallGet(<<"E","N">>, "K1")
    \/ CallPluralize(<<"E","N">>, "K1", MaxCount)
    \/ Return

SpecServe == InitServe /\ [][NextServe]_vars

----------------------------------------------------------------------------
(* The loader on an application one of whose files is not JSON.            *)

\* component2/l10n/en.json is broken; the default locale has a file
BrokenComponent ==
    [s \in Sources |->
        CASE s = Root -> (ru :> FileOf(Root, {"K1"}))
          [] s = "component1" -> (en :> FileOf("component1", {"K1"}))
          [] OTHER -> (en :> Broken)]

\* component2/l10n/en.json is broken and no source has the default locale
BrokenAndNoDefault ==
    [s \in Sources |->
        CASE s = "component2" -> (en :> Broken)
          [] OTHER -> NothingRead]

InitFail ==
    /\ Constructed
    /\ files \in {BrokenComponent, BrokenAndNoDefault, DefaultAndComponent}

SpecFail == InitFail /\ [][Next]_vars

\* every file-system request that was started completes
Completes ==
    /\ \A id \in 1..MaxInits : \A source \in Sources :
           WF_vars(ReadDir(id, source))
    /\ \A id \in 1..MaxInits : \A source \in Sources : \A locale \in FileLocales :
           WF_vars(ReadFile(id, source, locale))

SpecFailLive == SpecFail /\ Completes

----------------------------------------------------------------------------
(* The 'change' notifications of the component finder for any file of a    *)
(* component.                                                              *)

LOCALIZATIONS_FOLDER_NAME == "l10n"

\* path.dirname(args.filename)
dirname(filename) == filename.dir

\* path.join(path.dirname(args.component.path), LOCALIZATIONS_FOLDER_NAME)
l10nDirectory(component) == <<component, LOCALIZATIONS_FOLDER_NAME>>

\* path.basename(relative, '.json') of the localization files
BaseLocale == ("en.json" :> en) @@ ("ru.json" :> ru)

\* the files of a component that the finder reports: its localization
\* files, files of the component's own directory, of a directory below its
\* l10n directory and of an l10n directory deeper in the component
WatchedFiles(component) ==
    { Filename(<<component, "l10n">>, "en.json"),
      Filename(<<component, "l10n">>, "ru.json"),
      Filename(<<component>>, "index.js"),
      Filename(<<component>>, "en.json"),
      Filename(<<component, "l10n", "old">>, "en.json"),
      Filename(<<component, "assets", "l10n">>, "en.json") }

\* mutant: any file below the component's l10n directory counts
InL10nDirectory_below(component, filename) ==
    /\ Len(dirname(filename)) >= 2
    /\ SubSeq(dirname(filename), 1, 2) = l10nDirectory(component)

\* the test of the 'change' handler: fileDirectory === l10nDirectory
InL10nDirectory(component, filename) ==
    dirname(filename) = l10nDirectory(component)

\* the 'change' handler of _watchChanges for a notification about any file
\* of a component: it returns for a file outside the l10n directory,
\* otherwise it deletes the file's cache entry and calls _init()
OnChange(component, filename) ==
    /\ filename \in WatchedFiles(component)
    /\ IF ~InL10nDirectory(component, filename)
       THEN /\ notified' = filename
            /\ UNCHANGED <<placeholder, cacheVars, loadingCache, files, inits, started,
                           sourced, warned, failed, lastCall>>
       ELSE /\ loadingCache' = Without(loadingCache, <<component, BaseLocale[filename.base]>>)
            /\ _init
            /\ UNCHANGED <<placeholder, cacheVars, files, sourced, warned, failed,
                           notified, lastCall>>

NextNotify ==
    \/ Next
    \/ \E component \in Components : \E filename \in WatchedFiles(component) :
           OnChange(component, filename)

SpecNotify == InitFail /\ [][NextNotify]_vars

----------------------------------------------------------------------------
(* Vocabulary of the claims.                                               *)

Loaded == outcome.event = "l10nLoaded"

\* the locale arguments that are valid locale names once lowercased
ValidLocaleInputs == {x \in LocaleInputs : LOCALE_REGEXP_test(toLowerCase(x))}

HasRegion(l) == Len(l) = 5
PrimarySubtag(l) == SubSeq(l, 1, 2)

\* the keys that the own sources of locale l define
OwnKeys(l) == IF l \in DOMAIN prepared THEN DOMAIN prepared[l] ELSE {}

\* the locale whose dictionary serves l: l itself when it has sources, else
\* its primary subtag when that has sources, else the default locale
ServingLocale(l) ==
    IF l \in DOMAIN prepared THEN l
    ELSE IF HasRegion(l) /\ PrimarySubtag(l) \in DOMAIN prepared THEN PrimarySubtag(l)
    ELSE defaultLocale

\* the form of `forms` at the index that `rule` gives for n, when there is one
FormAt(rule, n, forms) == forms[RuleIndex(rule, n) + 1]
InRange(rule, n, forms) == RuleIndex(rule, n) < Len(forms)

----------------------------------------------------------------------------
(* C1: after a successful rebuild the committed dictionary of every        *)
(* non-default locale L that has a source has exactly the keys of the      *)
(* default locale's combined dictionary D and of L's combined dictionary C *)
(* plus the pluralization descriptor, and every key other than the         *)
(* descriptor has the value C[K] when C defines K and D[K] otherwise.      *)
C1_MergedWithDefault ==
    Loaded =>
        \A L \in DOMAIN prepared \ {defaultLocale} :
            /\ L \in DOMAIN objectCache
            /\ DOMAIN objectCache[L] =
                   DOMAIN prepared[defaultLocale] \cup DOMAIN prepared[L] \cup {PLURALIZATION}
            /\ \A K \in DOMAIN objectCache[L] \ {PLURALIZATION} :
                   objectCache[L][K] = IF K \in DOMAIN prepared[L]
                                       THEN prepared[L][K]
                                       ELSE prepared[defaultLocale][K]

C1_Witness ==
    /\ Loaded
    /\ en \in DOMAIN prepared
    /\ {"K1", "K2"} \subseteq DOMAIN prepared[defaultLocale]
    /\ DOMAIN prepared[en] = {"K1"}
    /\ prepared[en]["K1"] # prepared[defaultLocale]["K1"]
    /\ objectCache[en]["K1"] = prepared[en]["K1"]
    /\ objectCache[en]["K2"] = prepared[defaultLocale]["K2"]

(* C4: after a successful rebuild load(x) of a valid locale string x       *)
(* returns the default dictionary when x is empty, else the dictionary of  *)
(* lowercase(x) when there is one, else the dictionary of its primary      *)
(* subtag when x has a region and that dictionary exists, else the default *)
(* dictionary.                                                             *)
C4_LoadFallbackChain ==
    Loaded =>
        \A x \in ValidLocaleInputs \cup {<<>>} :
            load(x) = Ret(
                IF x = <<>> THEN objectCache[defaultLocale]
                ELSE IF toLowerCase(x) \in DOMAIN objectCache
                THEN objectCache[toLowerCase(x)]
                ELSE IF HasRegion(x) /\ PrimarySubtag(toLowerCase(x)) \in DOMAIN objectCache
                THEN objectCache[PrimarySubtag(toLowerCase(x))]
                ELSE objectCache[defaultLocale])

C4_Witness ==
    /\ Loaded
    /\ lastCall.op = "load"
    /\ lastCall.locale = <<"E","n","-","G","B">>
    /\ en \in DOMAIN objectCache
    /\ enGB \notin DOMAIN objectCache
    /\ objectCache[en] # objectCache[defaultLocale]
    /\ lastCall.result = Ret(objectCache[en])
    /\ load(enGB) = load(en)

(* C5 as stated: after a successful rebuild, for every valid locale L and  *)
(* every key K absent from L's own sources and present in the default      *)
(* locale, get(L, K) = get(defaultLocale, K).                              *)
C5_AsStated ==
    Loaded =>
        \A L \in ValidLocaleInputs : \A K \in DOMAIN prepared[defaultLocale] :
            K \notin OwnKeys(toLowerCase(L)) => get(L, K) = get(defaultLocale, K)

(* C5 amended: the same for every key K that is absent from the own        *)
(* sources of the locale whose dictionary serves L (L itself, else its     *)
(* primary subtag, else the default locale).                               *)
C5_GetInheritsDefault ==
    Loaded =>
        \A L \in ValidLocaleInputs : \A K \in DOMAIN prepared[defaultLocale] :
            (ServingLocale(toLowerCase(L)) # defaultLocale
                => K \notin OwnKeys(ServingLocale(toLowerCase(L))))
            => get(L, K) = get(defaultLocale, K)

C5_Witness ==
    /\ Loaded
    /\ lastCall.op = "get"
    /\ lastCall.locale = <<"E","n","-","G","B">>
    /\ lastCall.key = "K1"
    /\ enGB \in DOMAIN prepared
    /\ "K1" \notin DOMAIN prepared[enGB]
    /\ en \in DOMAIN prepared
    /\ Lookup(prepared[en], "K1") = Str("b")
    /\ Lookup(prepared[defaultLocale], "K1") = Str("a")
    /\ lastCall.result = Ret("a")

(* C6 as stated: for every non-default locale L and every key K whose      *)
(* plural-form array exists in the default locale and that no source of L  *)
(* defines, pluralize(L, K, n) = pluralize(defaultLocale, K, n) for every  *)
(* count n.                                                                *)
C6_AsStated ==
    Loaded =>
        \A L \in ValidLocaleInputs : \A K \in DOMAIN prepared[defaultLocale] :
            ( /\ toLowerCase(L) # defaultLocale
              /\ IsArray(prepared[defaultLocale][K])
              /\ K \notin OwnKeys(toLowerCase(L)) )
            => \A n \in Counts : pluralize(L, K, n) = pluralize(defaultLocale, K, n)

(* C6 amended: for every non-default locale L and every key K whose        *)
(* plural-form array exists in the default locale and that no source of    *)
(* the locale serving L defines: when a non-default dictionary serves L,   *)
(* pluralize(L, K, n) is the form that the rule looked up for the default  *)
(* locale selects from the default locale's array (the missing-value       *)
(* result when there is no such form); and pluralize(L, K, n) equals       *)
(* pluralize(defaultLocale, K, n) unless the default locale's sources      *)
(* define their own $pluralization descriptor.                             *)
C6_PluralizeInheritsDefaultRule ==
    Loaded =>
        \A L \in ValidLocaleInputs : \A K \in DOMAIN prepared[defaultLocale] \ {PLURALIZATION} :
            LET serving == ServingLocale(toLowerCase(L))
                forms == prepared[defaultLocale][K]
                rule == _getPluralizationRule(defaultLocale)
            IN  ( /\ toLowerCase(L) # defaultLocale
                  /\ IsArray(forms)
                  /\ serving # defaultLocale => K \notin OwnKeys(serving) )
                => \A n \in Counts :
                      /\ serving # defaultLocale =>
                            pluralize(L, K, n) =
                                Ret(IF InRange(rule, n, forms.arr)
                                    THEN FormAt(rule, n, forms.arr)
                                    ELSE _notFound(K))
                      /\ PLURALIZATION \notin DOMAIN prepared[defaultLocale] =>
                            pluralize(L, K, n) = pluralize(defaultLocale, K, n)

C6_Witness ==
    /\ Loaded
    /\ lastCall.op = "pluralize"
    /\ lastCall.locale = <<"E","n","-","G","B">>
    /\ lastCall.key = "K1"
    /\ lastCall.n = 5
    /\ enGB \in DOMAIN prepared
    /\ "K1" \notin DOMAIN prepared[enGB]
    /\ Lookup(prepared[defaultLocale], "K1") = FormsOf(DefaultForms, 3)
    /\ _getPluralizationRule(enGB) # _getPluralizationRule(defaultLocale)
    /\ lastCall.result = Ret("f2")
    /\ lastCall.result = pluralize(defaultLocale, "K1", 5)

(* C7: for every non-default locale L that has its own committed           *)
(* dictionary and every key K that L's own sources define as a plural-form *)
(* array, pluralize(L, K, n) is the form that the rule looked up for L     *)
(* selects from L's array, for every count n for which the array has that  *)
(* form, also when the default locale defines K as well.                   *)
C7_PluralizeOwnRule ==
    \A L \in DOMAIN prepared \ {defaultLocale} : \A K \in DOMAIN prepared[L] \ {PLURALIZATION} :
        IsArray(prepared[L][K]) =>
            \A n \in Counts :
                InRange(_getPluralizationRule(L), n, prepared[L][K].arr) =>
                    pluralize(L, K, n) =
                        Ret(FormAt(_getPluralizationRule(L), n, prepared[L][K].arr))

C7_Witness ==
    /\ Loaded
    /\ lastCall.op = "pluralize"
    /\ lastCall.locale = <<"E","N">>
    /\ lastCall.key = "K1"
    /\ lastCall.n = 5
    /\ en \in DOMAIN prepared
    /\ Lookup(prepared[en], "K1") = FormsOf(EnForms, 2)
    /\ IsArray(Lookup(prepared[defaultLocale], "K1"))
    /\ lastCall.result = Ret("e1")

(* C8 as stated: for every locale and every key present in the resolved    *)
(* dictionary, get returns the stored string when the value is a plain     *)
(* string and element 0 of the stored array when it is a plural-form array *)
(* (that has an element 0).                                                *)
C8_AsStated ==
    \A x \in ValidLocaleInputs \cup {<<>>} : \A K \in DOMAIN load(x).ret :
        LET value == load(x).ret[K]
        IN  /\ IsString(value) => get(x, K) = Ret(value.str)
            /\ (IsArray(value) /\ Len(value.arr) > 0) => get(x, K) = Ret(value.arr[1])

(* C9: for every valid locale and every key absent from the resolved       *)
(* dictionary and from the default locale, get returns the empty string    *)
(* when the placeholder flag is off and the key when it is on, never an    *)
(* error.                                                                  *)
C9_MissingKey ==
    \A x \in ValidLocaleInputs \cup {<<>>} : \A K \in QueryKeys :
        ( /\ K \notin DOMAIN load(x).ret
          /\ defaultLocale \in DOMAIN objectCache => K \notin DOMAIN objectCache[defaultLocale] )
        => get(x, K) = Ret(IF placeholder THEN K ELSE "")

C9_Witness ==
    /\ Loaded
    /\ placeholder
    /\ lastCall.op = "get"
    /\ lastCall.locale = <<"E","n","-","G","B">>
    /\ lastCall.key = "MISSING_KEY"
    /\ lastCall.result = Ret("MISSING_KEY")
    /\ DOMAIN load(enGB).ret # {}

(* C10: for every locale, every key whose stored value is not an array (a  *)
(* plain string, or absent) and every count n, pluralize(locale, key, n)   *)
(* returns exactly what get(locale, key) returns.                          *)
C10_PluralizeLikeGet ==
    \A x \in ValidLocaleInputs \cup {<<>>} : \A K \in QueryKeys :
        ~IsArray(Lookup(load(x).ret, K)) =>
            LET got == get(x, K)
            IN  \A n \in Counts : pluralize(x, K, n) = got

C10_Witness ==
    /\ Loaded
    /\ lastCall.op = "pluralize"
    /\ lastCall.locale = <<"E","N">>
    /\ lastCall.key = "K1"
    /\ en \in DOMAIN objectCache
    /\ Lookup(objectCache[en], "K1") = Str("b")
    /\ lastCall.result = Ret("b")
    /\ lastCall.result = get(en, "K1")

----------------------------------------------------------------------------
(* Claims about the order of the sources (specification Spec).             *)

\* the sources whose file of locale l, as applied by the last finished
\* rebuild, defines key k
DefinedBy(source, l, k) ==
    /\ source \in DOMAIN sourced
    /\ l \in DOMAIN sourced[source]
    /\ k \in DOMAIN sourced[source][l]

\* the value that the own sources of locale l gave to key k in the last
\* finished rebuild
OwnValue(l, k) == Lookup(prepared[l], k)

\* C2: whenever a rebuild has finished in which both the root l10n directory
\* and the l10n directory of some component define key K of locale L, the
\* value of K among the own sources of L, and so in the committed dictionary
\* of L, is the value of a component, not the value of the root directory.
C2_ComponentOverridesRoot ==
    \A l \in FileLocales : \A k \in Keys :
        (DefinedBy(Root, l, k) /\ \E c \in Components : DefinedBy(c, l, k))
            => /\ l \in DOMAIN objectCache
               /\ k \in DOMAIN objectCache[l]
               /\ objectCache[l][k] = OwnValue(l, k)
               /\ objectCache[l][k] # sourced[Root][l][k]
               /\ \E c \in Components :
                      DefinedBy(c, l, k) /\ objectCache[l][k] = sourced[c][l][k]

\* C2 witness: a rebuild finished with 'l10nLoaded' in which root and
\* component1 both define K1 of en, and the dictionary of en holds the value
\* of component1.
C2_Witness ==
    /\ Loaded
    /\ DefinedBy(Root, en, "K1")
    /\ DefinedBy("component1", en, "K1")
    /\ ~DefinedBy("component2", en, "K1")
    /\ en \in DOMAIN objectCache
    /\ Lookup(objectCache[en], "K1") = Str("component1")

\* C3 as stated: whenever a rebuild has finished in which two components
\* define key K of locale L, the committed dictionary of L holds the value of
\* the component that was discovered later.
C3_AsStated ==
    \A l \in FileLocales : \A k \in Keys :
        \A i \in DOMAIN ComponentNames : \A j \in DOMAIN ComponentNames :
            (i < j /\ DefinedBy(ComponentNames[i], l, k) /\ DefinedBy(ComponentNames[j], l, k))
                => /\ l \in DOMAIN objectCache
                   /\ Lookup(objectCache[l], k) = sourced[ComponentNames[j]][l][k]

----------------------------------------------------------------------------
(* Claims about the selection of plural forms.                             *)

\* the result of get for a value that is missing
MissingValue(key) == Ret(IF placeholder THEN key ELSE "")

(* C11: in every state, for every valid locale and every key whose value   *)
(* in the resolved dictionary is a plural-form array, when the rule of the *)
(* dictionary's descriptor that applies to the key gives for n an index    *)
(* outside the array, pluralize raises no error and returns the            *)
(* missing-value result of get: "" with the placeholder flag off, the key  *)
(* with it on.                                                             *)
C11_OutOfRangeIsMissing ==
    \A x \in ValidLocaleInputs \cup {<<>>} :
        LET dictionary == load(x).ret
        IN  \A K \in DOMAIN dictionary \ {PLURALIZATION} :
                IsArray(dictionary[K]) =>
                    \A n \in Counts :
                        ~InRange(PluralizationRuleOf(dictionary, K), n, dictionary[K].arr)
                            => pluralize(x, K, n) = MissingValue(K)

C11_Witness ==
    /\ Loaded
    /\ placeholder
    /\ lastCall.op = "pluralize"
    /\ lastCall.locale = <<"E","N">>
    /\ lastCall.key = "K1"
    /\ lastCall.n = 5
    /\ DOMAIN prepared = {defaultLocale}
    /\ Lookup(prepared[defaultLocale], "K1") = FormsOf(DefaultForms, 2)
    /\ PLURALIZATION \notin DOMAIN prepared[defaultLocale]
    /\ RuleIndex(_getPluralizationRule(defaultLocale), 5) = 2
    /\ lastCall.result = Ret("K1")

\* the counts for which the rules of the table are evaluated
RuleCounts == 0..MaxRuleCount

\* the form number that the claim gives for the Russian rule
RussianForm(n) ==
    IF n % 10 = 1 /\ n % 100 # 11 THEN 0
    ELSE IF n % 10 \in 2..4 /\ n % 100 \notin 10..19 THEN 1
    ELSE 2

\* the form number that the claim gives for the English rule
EnglishForm(n) == IF n = 1 THEN 0 ELSE 1

(* C12: with the Russian rule (the default locale ru, whose sources define *)
(* no descriptor) and an array of at least three forms, pluralize returns  *)
(* form 0 when n%10 = 1 and n%100 # 11, form 1 when n%10 is in 2..4 and    *)
(* n%100 is not in 10..19, and form 2 otherwise; with the English rule     *)
(* (locale en) and an own array of at least two forms it returns form 0    *)
(* exactly when n = 1 and form 1 otherwise; for every count of the range.  *)
C12_RussianAndEnglishRules ==
    /\ (defaultLocale \in DOMAIN prepared /\ PLURALIZATION \notin DOMAIN prepared[defaultLocale]) =>
           \A K \in DOMAIN prepared[defaultLocale] :
               LET forms == prepared[defaultLocale][K]
               IN  (IsArray(forms) /\ Len(forms.arr) >= 3) =>
                       \A n \in RuleCounts :
                           pluralize(defaultLocale, K, n) = Ret(forms.arr[RussianForm(n) + 1])
    /\ en \in DOMAIN prepared =>
           \A K \in DOMAIN prepared[en] :
               LET forms == prepared[en][K]
               IN  (IsArray(forms) /\ Len(forms.arr) >= 2) =>
                       \A n \in RuleCounts :
                           pluralize(en, K, n) = Ret(forms.arr[EnglishForm(n) + 1])

C12_Witness ==
    /\ Loaded
    /\ lastCall.op = "pluralize"
    /\ lastCall.locale = <<"E","N">>
    /\ lastCall.key = "K1"
    /\ lastCall.n = 5
    /\ lastCall.result = Ret("e1")
    /\ en \in DOMAIN prepared
    /\ Lookup(prepared[en], "K1") = FormsOf(EnForms, 2)
    /\ Lookup(prepared[defaultLocale], "K1") = FormsOf(DefaultForms, 3)
    /\ PLURALIZATION \notin DOMAIN prepared[defaultLocale]
    /\ pluralize(en, "K1", 1) = Ret("e0")
    /\ pluralize(defaultLocale, "K1", 1) = Ret("f0")
    /\ pluralize(defaultLocale, "K1", 2) = Ret("f1")
    /\ pluralize(defaultLocale, "K1", 5) = Ret("f2")
    /\ pluralize(defaultLocale, "K1", 11) = Ret("f2")
    /\ pluralize(defaultLocale, "K1", 12) = Ret("f2")
    /\ pluralize(defaultLocale, "K1", 21) = Ret("f0")
    /\ pluralize(defaultLocale, "K1", 22) = Ret("f1")
    /\ pluralize(defaultLocale, "K1", 111) = Ret("f2")

\* locale identifiers for which a rule is looked up: in the table, with a
\* region and only the primary subtag in the table, with a region and both
\* in the table, and not in the table at all
RuleLocales == {ru, en, enGB, pt, ptBR, fr, frCA}

\* the rule that the claim gives for a locale identifier
TableRule(l) ==
    IF l \in DOMAIN pluralizationMap THEN pluralizationMap[l]
    ELSE IF HasRegion(l) /\ PrimarySubtag(l) \in DOMAIN pluralizationMap
    THEN pluralizationMap[PrimarySubtag(l)]
    ELSE "0"

(* C13: the rule looked up for a locale is the table entry of the full     *)
(* identifier if there is one, otherwise the entry of the primary subtag   *)
(* if the identifier has a region and the table has the subtag, otherwise  *)
(* the rule '0', which selects the first form for every count; and these   *)
(* are the rules that a rebuild writes into the descriptors.               *)
C13_RuleLookup ==
    /\ \A l \in RuleLocales : _getPluralizationRule(l) = TableRule(l)
    /\ \A n \in Counts : RuleIndex(TableRule(fr), n) = 0
    /\ \A l \in DOMAIN objectCache \ {defaultLocale} :
           /\ objectCache[l][PLURALIZATION].obj.rule = TableRule(l)
           /\ objectCache[l][PLURALIZATION].obj.defaultRule = TableRule(defaultLocale)
    /\ (defaultLocale \in DOMAIN prepared /\ PLURALIZATION \notin DOMAIN prepared[defaultLocale])
           => objectCache[defaultLocale][PLURALIZATION].obj.rule = TableRule(defaultLocale)

C13_Witness ==
    /\ Loaded
    /\ enGB \in DOMAIN objectCache
    /\ enGB \notin DOMAIN pluralizationMap
    /\ objectCache[enGB][PLURALIZATION].obj.rule = EN_RULE
    /\ objectCache[enGB][PLURALIZATION].obj.defaultRule = RU_RULE
    /\ _getPluralizationRule(ptBR) = FR_RULE
    /\ _getPluralizationRule(pt) = EN_RULE
    /\ _getPluralizationRule(frCA) = "0"

----------------------------------------------------------------------------
(* Claims about load in every state of the loader (SpecServe).             *)

\* a rebuild has read some directory and has not finished
InFlight == \E id \in DOMAIN inits : \E s \in Sources : inits[id].dirs[s] # "idle"

\* the name that load tests: the lowercased argument, the default locale for
\* an empty argument
TestedName(x) == toLowerCase(IF x = <<>> THEN defaultLocale ELSE x)

\* a dictionary: a mapping from keys to values
IsDictionary(d) == DOMAIN d \subseteq QueryKeys

(* C14: in every state of the loader - before any rebuild, while one is in *)
(* flight, after a successful and after a failed one - load(x) raises the  *)
(* wrong-locale-name error exactly when the lowercased non-empty x does    *)
(* not match ^[a-z]{2}(-[a-z]{2})?$ and returns a dictionary for every     *)
(* other x; and every step in which load is called leaves the dictionary   *)
(* cache, the text cache and the loading cache unchanged.                  *)
C14_LoadThrowsOnlyOnWrongName ==
    /\ [](\A x \in LocaleInputs :
              IF LOCALE_REGEXP_test(TestedName(x))
              THEN ~IsThrow(load(x)) /\ IsDictionary(load(x).ret)
              ELSE load(x) = Throw("Wrong locale name"))
    /\ [][(lastCall = NoCall /\ lastCall'.op = "load")
              => /\ UNCHANGED <<objectCache, fileCache, loadingCache>>
                 /\ lastCall'.result = load(lastCall'.locale)]_vars

C14_Witness ==
    /\ outcome.event = "error"
    /\ InFlight
    /\ lastCall.op = "load"
    /\ lastCall.locale = <<"e","n","_","g","b">>
    /\ lastCall.result = Throw("Wrong locale name")
    /\ load(<<"E","N">>) = Ret(objectCache[en])
    /\ load(ru) = Ret(EmptyObject)

----------------------------------------------------------------------------
(* Claims about the case of locale names (SpecCache).                      *)

\* the locale arguments of the model paired with their lowercase forms
Lowercased ==
    { <<x, x>> : x \in {<<>>, ru, en, enGB, fr,
                        <<"c","h","i","n","a">>, <<"e","n","_","g","b">>} }
        \cup { << <<"E","N">>, en >>, << <<"E","n","-","G","B">>, enGB >> }

(* C15: in every state and for every locale argument s, load(s) returns    *)
(* the same dictionary or raises the same error as load(lowercase(s)), and *)
(* get and pluralize give the same result for s and lowercase(s), for      *)
(* every key and count.                                                    *)
C15_CaseInsensitive ==
    /\ {pair[1] : pair \in Lowercased} = LocaleInputs
    /\ \A pair \in Lowercased : load(pair[1]) = load(pair[2])
    /\ \A pair \in {p \in Lowercased : p[1] # p[2]} :
           \A K \in QueryKeys :
               /\ get(pair[1], K) = get(pair[2], K)
               /\ \A n \in Counts : pluralize(pair[1], K, n) = pluralize(pair[2], K, n)

C15_Witness ==
    /\ Loaded
    /\ lastCall.op = "get"
    /\ lastCall.locale = <<"E","N">>
    /\ lastCall.key = "K1"
    /\ en \in DOMAIN prepared
    /\ Lookup(prepared[en], "K1") = Str("b")
    /\ Lookup(prepared[defaultLocale], "K1") = Str("a")
    /\ lastCall.result = Ret("b")
    /\ lastCall.result = get(en, "K1")
    /\ load(<<"E","N">>) = load(en)

----------------------------------------------------------------------------
(* Claims about failed rebuilds.                                           *)

\* a step in which a rebuild finishes: a callback, no call is on the stack
RebuildFinishes == lastCall = NoCall /\ lastCall' = NoCall /\ cacheVars' # cacheVars

(* C16 as stated: a rebuild that fails leaves the committed dictionaries   *)
(* and the serialized texts exactly as they were before it, so that the    *)
(* last good state keeps being served.                                     *)
C16_AsStated ==
    [][(RebuildFinishes /\ outcome'.event = "error")
          => (objectCache' = objectCache /\ fileCache' = fileCache)]_vars

----------------------------------------------------------------------------
(* Claims about calls interleaved with rebuilds (SpecServe).               *)

\* the committed caches are the complete result of _prepareCache for the
\* `localizations` of one finished rebuild
CompleteSet ==
    /\ objectCache = PreparedObjectCache(prepared)
    /\ fileCache = [l \in DOMAIN objectCache |-> LocalizationFile(objectCache[l])]
    /\ \A l \in DOMAIN objectCache :
           /\ PLURALIZATION \in DOMAIN objectCache[l]
           /\ defaultLocale \in DOMAIN prepared
                  => DOMAIN prepared[defaultLocale] \subseteq DOMAIN objectCache[l]
           /\ \A k \in DOMAIN prepared[l] : \E s \in Sources : DefinedBy(s, l, k)
    /\ \A s \in DOMAIN sourced : \A l \in DOMAIN sourced[s] :
           /\ l \in DOMAIN prepared
           /\ DOMAIN sourced[s][l] \subseteq DOMAIN prepared[l]

\* the result of the call recorded in `call`, computed on the caches of the
\* current state
ResultNow(call) ==
    CASE call.op = "load" -> load(call.locale)
      [] call.op = "get" -> get(call.locale, call.key)
      [] call.op = "pluralize" -> pluralize(call.locale, call.key, call.n)

(* C17: in every interleaving of rebuilds with load, get and pluralize     *)
(* calls the committed set is at every moment the complete result of one   *)
(* finished rebuild (every dictionary with its descriptor and with the     *)
(* keys of the default dictionary, built from all directories that the     *)
(* rebuild read), the caches change only in the step that finishes a       *)
(* rebuild, and every call computes its result on one such set, which its  *)
(* step leaves unchanged.                                                  *)
C17_CallsSeeCompleteSets ==
    /\ [](CompleteSet)
    /\ [][/\ cacheVars' # cacheVars =>
                (lastCall = NoCall /\ lastCall' = NoCall
                    /\ \E id \in DOMAIN inits : id \notin DOMAIN inits')
          /\ (lastCall = NoCall /\ lastCall' # NoCall) =>
                (cacheVars' = cacheVars /\ lastCall'.result = ResultNow(lastCall'))]_vars

C17_Witness ==
    /\ Loaded
    /\ \E id \in DOMAIN inits :
           /\ inits[id].dirs[Root] = "applied"
           /\ inits[id].dirs["component1"] = "applied"
           /\ inits[id].localizations[en] # prepared[en]
    /\ lastCall.op = "get"
    /\ lastCall.locale = <<"E","N">>
    /\ lastCall.key = "K1"
    /\ lastCall.result = Ret("component1")
    /\ objectCache[en]["K2"] = Str(Root)

----------------------------------------------------------------------------
(* Claims about overlapping rebuilds (Spec).                               *)

(* C18 as stated: at any time at most one rebuild is loading and merging;  *)
(* a notification that arrives while a rebuild is in progress starts no    *)
(* second rebuild that runs concurrently with it.                          *)
C18_AsStated == Cardinality(DOMAIN inits) <= 1

----------------------------------------------------------------------------
(* Claims about the default dictionary (SpecCache).                        *)

\* the Error that _init passes to the 'error' event
MissingDefault ==
    [event |-> "error", reason |-> <<"Can not load default locale ", <<"r","u">>>>]

(* C19: a finished rebuild in which no source provided a dictionary of the *)
(* default locale has emitted 'error' with the reason 'Can not load        *)
(* default locale ru' and not 'l10nLoaded', a rebuild with a default       *)
(* dictionary has emitted 'l10nLoaded'; and load, get and pluralize raise  *)
(* nothing but the wrong-locale-name error of a malformed name.            *)
C19_MissingDefaultIsAnEvent ==
    /\ outcome.event # "none" =>
           IF defaultLocale \in DOMAIN prepared
           THEN outcome = [event |-> "l10nLoaded"]
           ELSE outcome = MissingDefault
    /\ \A x \in LocaleInputs :
           LET valid == LOCALE_REGEXP_test(TestedName(x))
           IN  /\ IsThrow(load(x)) => (~valid /\ load(x) = Throw("Wrong locale name"))
               /\ \A K \in QueryKeys :
                      /\ IsThrow(get(x, K)) => ~valid
                      /\ IsThrow(pluralize(x, K, MaxCount)) => ~valid

C19_Witness ==
    /\ outcome = MissingDefault
    /\ defaultLocale \notin DOMAIN objectCache
    /\ en \in DOMAIN objectCache
    /\ Lookup(prepared[en], "K1") = FormsOf(EnForms, 2)
    /\ lastCall.op = "pluralize"
    /\ lastCall.locale = <<"E","N">>
    /\ lastCall.key = "K1"
    /\ ~IsThrow(lastCall.result)
    /\ get(defaultLocale, "K1") = MissingValue("K1")

(* C20 as stated: a rebuild whose default dictionary exists but is empty   *)
(* is reported through the 'error' event, 'l10nLoaded' is not emitted.     *)
C20_AsStated ==
    (defaultLocale \in DOMAIN prepared /\ DOMAIN prepared[defaultLocale] = {})
        => outcome.event = "error"

(* C20 amended: a rebuild whose default dictionary exists but is empty     *)
(* succeeds like any rebuild with a default dictionary: 'l10nLoaded' is    *)
(* emitted and the caches are committed, the default dictionary holding    *)
(* only the pluralization descriptor with the rule looked up for the       *)
(* default locale.                                                         *)
C20_EmptyDefaultIsLoaded ==
    (defaultLocale \in DOMAIN prepared /\ DOMAIN prepared[defaultLocale] = {})
        => /\ outcome = [event |-> "l10nLoaded"]
           /\ DOMAIN objectCache = DOMAIN prepared
           /\ DOMAIN objectCache[defaultLocale] = {PLURALIZATION}
           /\ objectCache[defaultLocale][PLURALIZATION] =
                  Obj([rule |-> _getPluralizationRule(defaultLocale)])
           /\ DOMAIN fileCache = DOMAIN objectCache

C20_Witness ==
    /\ Loaded
    /\ defaultLocale \in DOMAIN prepared
    /\ prepared[defaultLocale] = EmptyObject
    /\ en \in DOMAIN prepared
    /\ Lookup(prepared[en], "K1") = Str("b")
    /\ lastCall.op = "get"
    /\ lastCall.locale = <<"E","N">>
    /\ lastCall.key = "K1"
    /\ lastCall.result = Ret("b")
    /\ load(<<>>) = Ret(objectCache[defaultLocale])

----------------------------------------------------------------------------
(* Claims about the loader before its first rebuild (SpecServe).           *)

(* C21 as stated: while no rebuild has finished, load of every valid       *)
(* locale fails with an error that is not the wrong-locale-name error and  *)
(* returns no dictionary.                                                  *)
C21_AsStated ==
    outcome.event = "none" =>
        \A x \in ValidLocaleInputs \cup {<<>>} :
            IsThrow(load(x)) /\ load(x) # Throw("Wrong locale name")

(* C21 amended: while no rebuild has finished, load of every valid locale  *)
(* raises nothing and returns an empty dictionary, so that get returns the *)
(* missing-value result for every key; there is no 'not yet initialized'   *)
(* condition.                                                              *)
C21_EmptyBeforeFirstRebuild ==
    outcome.event = "none" =>
        \A x \in ValidLocaleInputs \cup {<<>>} :
            /\ load(x) = Ret(EmptyObject)
            /\ \A K \in QueryKeys : get(x, K) = MissingValue(K)

C21_Witness ==
    /\ outcome.event = "none"
    /\ InFlight
    /\ lastCall.op = "load"
    /\ lastCall.locale = <<"E","N">>
    /\ lastCall.result = Ret(EmptyObject)

----------------------------------------------------------------------------
(* Claims about the effects of the queries (SpecServe).                    *)

(* C22: every step in which get or pluralize is called, and the step in    *)
(* which the call returns, leaves the committed dictionaries with their    *)
(* descriptors, the serialized texts and the loading cache unchanged,      *)
(* starts no rebuild, lets no rebuild advance and emits no outcome event.  *)
C22_QueriesArePureReads ==
    [][((lastCall = NoCall /\ lastCall'.op \in {"get", "pluralize"})
            \/ lastCall.op \in {"get", "pluralize"})
          => UNCHANGED <<objectCache, fileCache, loadingCache, inits, started,
                         prepared, sourced, outcome, files>>]_vars

C22_Witness ==
    /\ Loaded
    /\ InFlight
    /\ DOMAIN loadingCache # {}
    /\ lastCall.op = "pluralize"
    /\ lastCall.result = Ret("component1")
    /\ load(<<"E","N">>) = Ret(objectCache[en])

----------------------------------------------------------------------------
(* Claims about successive rebuilds (SpecWatch).                           *)

\* a step in which the chain of a rebuild ends and its result is committed
Commits == \E id \in DOMAIN inits : id \notin DOMAIN inits'

(* C23 as stated: a rebuild that follows a finished rebuild and has read   *)
(* from every directory the same files with the same contents commits      *)
(* identical dictionaries, descriptors and serialized texts.               *)
C23_AsStated ==
    [][(Commits /\ sourced' = sourced)
          => (objectCache' = objectCache /\ fileCache' = fileCache)]_vars


\* the rebuild `id` assigns the files of directory `source` in this step
Applies(id, source) ==
    /\ id \in DOMAIN inits
    /\ inits[id].dirs[source] # "applied"
    /\ \/ id \notin DOMAIN inits'
       \/ inits'[id].dirs[source] = "applied"

\* a source that the rebuild `id` applied earlier defines `key` for `locale`
DefinedEarlier(id, locale, key) ==
    \E s \in Sources :
        /\ inits[id].dirs[s] = "applied"
        /\ locale \in DOMAIN inits[id].got[s]
        /\ key \in DOMAIN inits[id].got[s][locale]

(* C24: when a rebuild assigns the keys of a directory's files, it reports a
   duplicate-key warning for exactly the keys that a source applied earlier
   in the same rebuild already defined for that locale; the rebuild goes on
   (or commits) and the combined dictionary holds the later value. *)
C24_WarnsExactlyOnOverride ==
    [][\A id \in 1..MaxInits : \A source \in Sources :
          Applies(id, source) =>
              LET ends == id \notin DOMAIN inits'
                  read == IF ends THEN sourced'[source]
                          ELSE inits'[id].got[source]
                  reported == IF ends THEN warned'[source]
                              ELSE inits'[id].warned[source]
                  combined == IF ends THEN prepared'
                              ELSE inits'[id].localizations
              IN  /\ reported =
                        UNION {{<<l, k>> : k \in {x \in DOMAIN read[l] :
                                                    DefinedEarlier(id, l, x)}} :
                                  l \in DOMAIN read}
                  /\ \A l \in DOMAIN read :
                        /\ l \in DOMAIN combined
                        /\ \A k \in DOMAIN read[l] :
                              /\ k \in DOMAIN combined[l]
                              /\ combined[l][k] = read[l][k]]_vars

\* a finished rebuild in which component1 overrode a key of the root
\* directory (one warning) and the root, applied first, raised none
C24_Witness ==
    /\ Loaded
    /\ DOMAIN inits = {}
    /\ Root \in DOMAIN warned
    /\ warned[Root] = {}
    /\ warned["component1"] = {<<ru, "K2">>}
    /\ prepared[ru]["K2"] = sourced["component1"][ru]["K2"]
    /\ sourced[Root][ru]["K2"] # sourced["component1"][ru]["K2"]


\* ---- construction ----

china == <<"c", "h", "i", "n", "a">>

\* the values that config.l10n.defaultLocale is given (strings)
DefaultLocaleInputs == {<<>>, ru, enGB, china, <<"R", "U">>, <<"e", "n", "-">>}

\* config.l10n: without defaultLocale or with one of the values
SectionInputs ==
    {[k \in {} |-> <<>>]} \cup {[defaultLocale |-> d] : d \in DefaultLocaleInputs}

\* the config objects: without an l10n section or with one
ConfigInputs ==
    {[k \in {} |-> <<>>]} \cup {[l10n |-> section] : section \in SectionInputs}

\* the config the modelled loader and provider are constructed with
Config == [l10n |-> [defaultLocale |-> defaultLocale]]

\* l10n.defaultLocale ? String(l10n.defaultLocale) : ''
DefaultLocaleOf(l10n) ==
    IF "defaultLocale" \in DOMAIN l10n /\ l10n.defaultLocale # <<>>
    THEN l10n.defaultLocale
    ELSE <<>>

\* mutant: the name of the default locale is not tested
LocalizationLoader_anyName(config) ==
    IF "l10n" \notin DOMAIN config
    THEN Throw(<<"\"l10n\" config section is required">>)
    ELSE Ret(DefaultLocaleOf(config.l10n))

\* new LocalizationLoader(locator): the error it throws, or this._defaultLocale
LocalizationLoader(config) ==
    IF "l10n" \notin DOMAIN config
    THEN Throw(<<"\"l10n\" config section is required">>)
    ELSE LET name == DefaultLocaleOf(config.l10n)
         IN  IF ~LOCALE_REGEXP_test(name)
             THEN Throw(<<"Wrong locale name ", name>>)
             ELSE Ret(name)

\* new LocalizationProvider(locator): the error it throws, or this._defaultLocale
LocalizationProvider(config) ==
    IF "l10n" \notin DOMAIN config
    THEN Throw(<<"\"l10n\" config section is required">>)
    ELSE LET name == DefaultLocaleOf(config.l10n)
         IN  IF ~LOCALE_REGEXP_test(name)
             THEN Throw(<<"Wrong locale name ", name>>)
             ELSE Ret(name)

\* the config has an l10n section whose defaultLocale is a well-formed name
WellFormed(config) ==
    /\ "l10n" \in DOMAIN config
    /\ "defaultLocale" \in DOMAIN config.l10n
    /\ LOCALE_REGEXP_test(config.l10n.defaultLocale)

(* C25: constructing a loader or a provider throws when the config has no
   l10n section, when defaultLocale is not specified and when it does not
   match ^[a-z]{2}(-[a-z]{2})?$; with a well-formed defaultLocale both
   constructions succeed and hold that name as the default locale, as the
   constructed loader of the model does, whose load without a locale
   therefore never fails the test of the name. *)
C25_ConstructionValidatesDefaultLocale ==
    /\ ~IsThrow(load(<<>>))
    /\ \A config \in ConfigInputs :
          /\ IsThrow(LocalizationLoader(config)) <=> ~WellFormed(config)
          /\ IsThrow(LocalizationProvider(config)) <=> ~WellFormed(config)
          /\ WellFormed(config) =>
                /\ LocalizationLoader(config) = Ret(config.l10n.defaultLocale)
                /\ LocalizationProvider(config) = Ret(config.l10n.defaultLocale)
    /\ LocalizationLoader(Config) = Ret(defaultLocale)
    /\ LocalizationProvider(Config) = Ret(defaultLocale)

\* the constructed loader serves its default locale, and the three kinds of
\* rejected config are among the inputs
C25_Witness ==
    /\ Loaded
    /\ defaultLocale \in DOMAIN objectCache
    /\ Config \in ConfigInputs
    /\ IsThrow(LocalizationLoader([k \in {} |-> <<>>]))
    /\ IsThrow(LocalizationProvider([l10n |-> [k \in {} |-> <<>>]]))
    /\ IsThrow(LocalizationLoader([l10n |-> [defaultLocale |-> china]]))


\* ---- the serialized text ----

\* the locale the middleware asks the text for: the lowercased match of
\* [a-z]{2}(-[a-z]{2})? in the cookie or the Accept-Language header, or
\* the default locale
RequestLocales == {toLowerCase(x) : x \in ValidLocaleInputs} \cup {defaultLocale}

\* response.end(undefined): there is no text to serve
NoFile == <<>>

\* mutant: no fallback to the text of the primary subtag
_getLocalizationFile_noSubtag(locale) ==
    IF locale \in DOMAIN fileCache
    THEN fileCache[locale]
    ELSE IF defaultLocale \in DOMAIN fileCache
    THEN fileCache[defaultLocale]
    ELSE NoFile

_getLocalizationFile(locale) ==
    LET firstLocaleComponent == splitFirst(locale)
    IN  IF locale \in DOMAIN fileCache
        THEN fileCache[locale]
        ELSE IF firstLocaleComponent # locale /\ firstLocaleComponent \in DOMAIN fileCache
        THEN fileCache[firstLocaleComponent]
        ELSE IF defaultLocale \in DOMAIN fileCache
        THEN fileCache[defaultLocale]
        ELSE NoFile

(* C26: while the last finished rebuild is a successful one, the text cache
   has the locales of the committed dictionaries, each text is the
   serialization of the committed dictionary of its locale, and the text
   served for a requested locale is the serialization of the dictionary
   that load returns for that locale. *)
C26_TextMatchesDictionary ==
    Loaded =>
        /\ DOMAIN fileCache = DOMAIN objectCache
        /\ \A l \in DOMAIN fileCache : fileCache[l] = LocalizationFile(objectCache[l])
        /\ \A x \in RequestLocales :
              /\ ~IsThrow(load(x))
              /\ _getLocalizationFile(x) = LocalizationFile(load(x).ret)

\* the text for en-gb is the one of the primary subtag: en-gb has no
\* dictionary, en has one, and its text differs from the default's
C26_Witness ==
    /\ Loaded
    /\ en \in DOMAIN fileCache
    /\ enGB \notin DOMAIN fileCache
    /\ _getLocalizationFile(enGB) = fileCache[en]
    /\ load(enGB) = Ret(objectCache[en])
    /\ fileCache[en] # fileCache[defaultLocale]


\* the keys of the default locale's sources whose value is an array
PluralKeys == {k \in DOMAIN prepared[defaultLocale] : IsArray(prepared[defaultLocale][k])}

(* C27: while the last finished rebuild is a successful one, the descriptor
   of every locale other than the default holds the rule looked up for the
   locale, the rule looked up for the default locale, and as inherited keys
   exactly the keys whose value in the default locale is an array and that
   no source of the locale defines. *)
C27_DescriptorOfOtherLocales ==
    Loaded =>
        \A l \in DOMAIN objectCache \ {defaultLocale} :
            objectCache[l][PLURALIZATION] =
                Obj([rule |-> _getPluralizationRule(l),
                     defaultRule |-> _getPluralizationRule(defaultLocale),
                     fromDefaultLocale |-> PluralKeys \ DOMAIN prepared[l]])

\* en inherits one plural key of the default locale and defines another
\* plural key of the default locale itself; the two rules differ
C27_Witness ==
    /\ Loaded
    /\ en \in DOMAIN objectCache
    /\ PluralKeys = {"K1", "K2"}
    /\ objectCache[en][PLURALIZATION].obj.fromDefaultLocale = {"K2"}
    /\ "K1" \in DOMAIN prepared[en]
    /\ objectCache[en][PLURALIZATION].obj.rule # objectCache[en][PLURALIZATION].obj.defaultRule


(* C28: while the last finished rebuild is a successful one, the dictionary
   of the default locale has the keys and values of its own combined sources
   and nothing else but the descriptor, which is {rule: the rule looked up
   for the default locale} when the sources define no descriptor and the
   descriptor of the sources otherwise. *)
C28_DefaultDictionary ==
    Loaded =>
        LET own == prepared[defaultLocale]
            committed == objectCache[defaultLocale]
        IN  /\ DOMAIN committed = DOMAIN own \cup {PLURALIZATION}
            /\ \A k \in DOMAIN own : committed[k] = own[k]
            /\ PLURALIZATION \notin DOMAIN own =>
                  committed[PLURALIZATION] = Obj([rule |-> _getPluralizationRule(defaultLocale)])

\* the sources of the default locale define a descriptor with another rule
\* than the table's, and it is the committed one
C28_Witness ==
    /\ Loaded
    /\ PLURALIZATION \in DOMAIN prepared[defaultLocale]
    /\ objectCache[defaultLocale][PLURALIZATION] = DataDescriptor
    /\ DataDescriptor # Obj([rule |-> _getPluralizationRule(defaultLocale)])
    /\ "K1" \in DOMAIN objectCache[defaultLocale]


\* the rule that pluralize applies to `key` for `locale` is not an expression
MalformedRuleApplies(locale, key) ==
    LET loaded == load(locale)
    IN  /\ ~IsThrow(loaded)
        /\ IsArray(Lookup(loaded.ret, key))
        /\ IsObjectValue(Lookup(loaded.ret, PLURALIZATION))
        /\ ~Compiles(PluralizationRuleOf(loaded.ret, key))

(* C29 as stated: when the rule that applies to a key is a malformed
   expression, pluralize for that key returns the missing-form result (the
   empty string, or the key with the placeholder flag on) and raises
   nothing, and get for the same locale and key returns its normal value. *)
C29_AsStated ==
    \A x \in RuleCallLocales : \A K \in Keys :
        MalformedRuleApplies(x, K) =>
            /\ pluralize(x, K, MaxCount) = MissingValue(K)
            /\ ~IsThrow(get(x, K))


\* the sources whose file of `locale` on disk defines `key`
Defining(locale, key) ==
    {s \in Sources : locale \in DOMAIN files[s] /\ key \in DOMAIN files[s][locale]}

\* the committed combination is a merge of the files as they are on disk:
\* the locales that have a file, for each the keys that its files define,
\* each key with the value of one of the files that define it
MergeOfCurrentSources ==
    /\ DOMAIN prepared = UNION {DOMAIN files[s] : s \in Sources}
    /\ \A l \in DOMAIN prepared :
          /\ DOMAIN prepared[l] = {k \in Keys : Defining(l, k) # {}}
          /\ \A k \in DOMAIN prepared[l] :
                \E s \in Defining(l, k) : prepared[l][k] = files[s][l][k]

(* C30 as stated: when notifications arrive one rebuild at a time, every
   rebuild that completes successfully commits a merge of the sources as
   they exist at that time; a key, a locale or a component that is no longer
   in the sources contributes nothing. *)
C30_AsStated ==
    [][(Commits /\ outcome'.event = "l10nLoaded") => MergeOfCurrentSources']_vars


----------------------------------------------------------------------------
(* The middleware of the loader.  Header values and cookie names are       *)
(* sequences of characters; a header that the request does not have is the *)
(* empty sequence (both are falsy for the code).                           *)

IsLetter(c) == toLowerCaseChar(c) \in LowerLetterSet

\* the length of the match of /[a-z]{2}(-[a-z]{2})?/i at position i of s,
\* 0 when there is none
BROWSER_LOCALE_REGEXP_at(s, i) ==
    IF i + 1 <= Len(s) /\ IsLetter(s[i]) /\ IsLetter(s[i + 1])
    THEN IF i + 4 <= Len(s) /\ s[i + 2] = "-" /\ IsLetter(s[i + 3]) /\ IsLetter(s[i + 4])
         THEN 5
         ELSE 2
    ELSE 0

DEFAULT_LOCALE_COOKIE_KEY == <<"l", "o", "c", "a", "l", "e">>

\* the length of the match of LOCALE_COOKIE_REGEXP, /locale=[a-z]{2}(-[a-z]{2})?/i,
\* at position i of s, 0 when there is none
LOCALE_COOKIE_REGEXP_at(s, i) ==
    LET key == DEFAULT_LOCALE_COOKIE_KEY \o <<"=">>
        n == Len(key)
    IN  IF /\ i + n - 1 <= Len(s)
           /\ toLowerCase(SubSeq(s, i, i + n - 1)) = key
           /\ BROWSER_LOCALE_REGEXP_at(s, i + n) > 0
        THEN n + BROWSER_LOCALE_REGEXP_at(s, i + n)
        ELSE 0

\* the first position of s where At(s, _) matches, 0 when there is none
FirstMatch(s, At(_, _)) ==
    IF \E i \in 1..Len(s) : At(s, i) > 0
    THEN CHOOSE i \in 1..Len(s) : At(s, i) > 0 /\ \A j \in 1..(i - 1) : At(s, j) = 0
    ELSE 0

\* getBrowserLocale/getLocaleFromRequest return null
NoLocale == <<>>

\* getBrowserLocale(request): the first match in Accept-Language, lowercased
getBrowserLocale(acceptLanguage) ==
    LET i == FirstMatch(acceptLanguage, BROWSER_LOCALE_REGEXP_at)
    IN  IF i = 0 THEN NoLocale
        ELSE toLowerCase(SubSeq(acceptLanguage, i,
                                i + BROWSER_LOCALE_REGEXP_at(acceptLanguage, i) - 1))

\* mutant: the Cookie header is not read
getLocaleFromRequest_never(cookie) == NoLocale

\* getLocaleFromRequest(request): the text after '=' of the first match of
\* LOCALE_COOKIE_REGEXP in the Cookie header, lowercased
getLocaleFromRequest(cookie) ==
    LET i == FirstMatch(cookie, LOCALE_COOKIE_REGEXP_at)
        n == Len(DEFAULT_LOCALE_COOKIE_KEY) + 1
    IN  IF i = 0 THEN NoLocale
        ELSE toLowerCase(SubSeq(cookie, i + n, i + LOCALE_COOKIE_REGEXP_at(cookie, i) - 1))

LOCALE_URL == "/l10n.js"

\* response.setHeader was not called
NoHeader == [none |-> TRUE]

\* the middleware passes the request on
CallsNext == [next |-> TRUE]

\* `${this._cookieConfig.name}=${locale}` of _setLocaleToResponse
localeSetup(name, locale) == name \o <<"=">> \o locale

\* the function that getMiddleware returns, for a loader configured with
\* the cookie name `name`: the locale it resolves, the Set-Cookie header it
\* writes (name and value; the attributes Max-Age, Expires, Path, Domain,
\* Secure and HttpOnly are left out), the Cookie header it leaves on the
\* request, and the text it ends the response with or the call of next()
middleware(name, request) ==
    LET fromCookie == getLocaleFromRequest(request.cookie)
        fromBrowser == getBrowserLocale(request.acceptLanguage)
        locale == IF fromCookie # NoLocale THEN fromCookie
                  ELSE IF fromBrowser # NoLocale THEN fromBrowser
                  ELSE defaultLocale
    IN  [locale |-> locale,
         setCookie |-> IF fromCookie # NoLocale THEN NoHeader
                       ELSE [name |-> name, value |-> locale],
         cookie |-> IF fromCookie # NoLocale THEN request.cookie
                    ELSE IF request.cookie = <<>> THEN localeSetup(name, locale)
                    ELSE request.cookie \o <<";", " ">> \o localeSetup(name, locale),
         response |-> IF request.url = LOCALE_URL
                      THEN [end |-> _getLocalizationFile(locale)]
                      ELSE CallsNext]

\* the cookie names that config.l10n.cookie.name is given (the default
\* 'locale' stands for a config without a name)
CookieNames == {DEFAULT_LOCALE_COOKIE_KEY, <<"t", "e", "s", "t", "N", "a", "m", "e">>, <<"c", "o", "o", "l", "L", "o", "c", "a", "l", "e">>, <<"l", "a", "n", "g">>}

\* the Cookie headers of the requests
CookieInputs ==
    {<<>>, <<"l", "o", "c", "a", "l", "e", "=", "e", "n">>, <<"l", "o", "c", "a", "l", "e", "=", "E", "N", "-", "g", "b">>, <<"l", "o", "c", "a", "l", "e", "=", "w", "r", "o", "n", "g">>, <<"l", "a", "n", "g", "=", "f", "r">>, <<"a", "=", "b", ";", " ", "l", "o", "c", "a", "l", "e", "=", "f", "r">>}

\* the Accept-Language headers of the requests
AcceptLanguageInputs == {<<>>, <<"e", "n", "-", "U", "S", ",", "r", "u", ";", "q", "=", "0", ".", "8">>, <<"f", "r">>, <<"*">>}

\* request.url
UrlInputs == {LOCALE_URL, "/index.html"}

Requests == [cookie : CookieInputs, acceptLanguage : AcceptLanguageInputs, url : UrlInputs]

\* a request arrives at the middleware of a loader configured with `name`
Request(name, request) ==
    /\ lastCall = NoCall
    /\ lastCall' = [op |-> "request", name |-> name, request |-> request,
                    result |-> middleware(name, request)]
    /\ UNCHANGED <<placeholder, cacheVars, loaderVars>>

\* the combined dictionaries of the rebuilds of this specification
HttpDictionaries(locale) ==
    {d \in SourceDictionaries(locale) : DOMAIN d = {"K1"} /\ IsString(d["K1"])}

NextHttp ==
    \/ \E locale \in {defaultLocale, en} :
           \E dictionary \in HttpDictionaries(locale) \cup {NoDictionary} :
               Rebuild(locale, dictionary)
    \/ \E name \in CookieNames : \E request \in Requests : Request(name, request)
    \/ Return

SpecHttp == InitCache /\ [][NextHttp]_vars


\* the locale that a Cookie header of the requests carries under the name
\* 'locale' (NoLocale: none)
CookieLocale(cookie) ==
    CASE cookie = <<"l", "o", "c", "a", "l", "e", "=", "e", "n">> -> en
      [] cookie = <<"l", "o", "c", "a", "l", "e", "=", "E", "N", "-", "g", "b">> -> enGB
      [] cookie = <<"l", "o", "c", "a", "l", "e", "=", "w", "r", "o", "n", "g">> -> <<"w", "r">>
      [] cookie = <<"a", "=", "b", ";", " ", "l", "o", "c", "a", "l", "e", "=", "f", "r">> -> fr
      [] OTHER -> NoLocale

\* the first locale-shaped token of an Accept-Language header of the
\* requests, lowercased (NoLocale: none)
BrowserLocale(acceptLanguage) ==
    CASE acceptLanguage = <<"e", "n", "-", "U", "S", ",", "r", "u", ";", "q", "=", "0", ".", "8">> -> <<"e", "n", "-", "u", "s">>
      [] acceptLanguage = <<"f", "r">> -> fr
      [] OTHER -> NoLocale

(* C31: for every request to a loader with the default cookie name, the
   locale of the middleware is the locale of the request's cookie if it has
   one, otherwise the first locale-shaped token of Accept-Language in lower
   case, otherwise the default locale; Set-Cookie is written, with that
   locale, exactly when the locale did not come from the cookie; and the
   response is ended with the text of the locale exactly when the url is
   /l10n.js, otherwise next() is called. *)
C31_MiddlewareLocale ==
    \A request \in Requests :
        LET result == middleware(DEFAULT_LOCALE_COOKIE_KEY, request)
            expected == IF CookieLocale(request.cookie) # NoLocale
                        THEN CookieLocale(request.cookie)
                        ELSE IF BrowserLocale(request.acceptLanguage) # NoLocale
                        THEN BrowserLocale(request.acceptLanguage)
                        ELSE defaultLocale
        IN  /\ result.locale = expected
            /\ IF CookieLocale(request.cookie) # NoLocale
               THEN result.setCookie = NoHeader
               ELSE result.setCookie = [name |-> DEFAULT_LOCALE_COOKIE_KEY, value |-> expected]
            /\ IF request.url = LOCALE_URL
               THEN result.response = [end |-> _getLocalizationFile(expected)]
               ELSE result.response = CallsNext

\* a request for /l10n.js without a cookie and with Accept-Language
\* 'en-US,ru;q=0.8' was answered with the text of en and a cookie for en-us
C31_Witness ==
    /\ Loaded
    /\ en \in DOMAIN fileCache
    /\ lastCall.op = "request"
    /\ lastCall.name = DEFAULT_LOCALE_COOKIE_KEY
    /\ lastCall.request = [cookie |-> <<>>, acceptLanguage |-> <<"e", "n", "-", "U", "S", ",", "r", "u", ";", "q", "=", "0", ".", "8">>, url |-> LOCALE_URL]
    /\ lastCall.result.locale = <<"e", "n", "-", "u", "s">>
    /\ lastCall.result.setCookie.value = <<"e", "n", "-", "u", "s">>
    /\ lastCall.result.response = [end |-> fileCache[en]]
    /\ fileCache[en] # fileCache[defaultLocale]


----------------------------------------------------------------------------
(* The browser-side loader.                                                *)

\* the values that window.localization is given: absent, dictionaries, an
\* array, and strings
WindowInputs ==
    {Undefined, Obj(EmptyObject), Obj([K1 |-> Str("a")]),
     Obj([K1 |-> FormsOf(DefaultForms, MaxForms),
          K2 |-> Obj([rule |-> RU_RULE])]),
     Arr(<<"a">>), Str("text"), Str("")}

\* mutant: window.localization is kept whatever it is
BrowserLocalizationLoader_anyValue(localization) == localization

\* new LocalizationLoader(locator) of the browser: this._localization
BrowserLocalizationLoader(localization) ==
    IF Truthy(localization) /\ (IsObjectValue(localization) \/ IsArray(localization))
    THEN localization
    ELSE Obj(EmptyObject)

\* load() of the browser loader whose field is `_localization`; the
\* argument is not read
browserLoad(_localization, locale) == Ret(_localization)

\* a page constructs the browser loader from window.localization and calls
\* load(locale)
CallBrowserLoad(localization, locale) ==
    /\ lastCall = NoCall
    /\ lastCall' = [op |-> "browserLoad", window |-> localization, locale |-> locale,
                    result |-> browserLoad(BrowserLocalizationLoader(localization), locale)]
    /\ UNCHANGED <<placeholder, cacheVars, loaderVars>>

NextBrowser ==
    \/ \E localization \in WindowInputs : \E locale \in LocaleInputs :
           CallBrowserLoad(localization, locale)
    \/ Return

SpecBrowser == InitCache /\ [][NextBrowser]_vars

(* C32: the browser loader returns, for every locale argument, well-formed
   or not, and without raising, the same value: window.localization when it
   is an object, otherwise an empty dictionary; so does every recorded
   call. *)
C32_BrowserLoadIgnoresLocale ==
    /\ \A localization \in WindowInputs : \A x \in LocaleInputs :
          browserLoad(BrowserLocalizationLoader(localization), x) =
              Ret(IF IsObjectValue(localization) \/ IsArray(localization)
                  THEN localization
                  ELSE Obj(EmptyObject))
    /\ lastCall.op = "browserLoad" =>
          /\ ~IsThrow(lastCall.result)
          /\ lastCall.result = browserLoad(BrowserLocalizationLoader(lastCall.window), ru)

\* load('china') on a page whose window.localization is a dictionary has
\* returned that dictionary, and a page with a string has an empty one
C32_Witness ==
    /\ lastCall.op = "browserLoad"
    /\ lastCall.locale = china
    /\ lastCall.window = Obj([K1 |-> Str("a")])
    /\ lastCall.result = Ret(lastCall.window)
    /\ browserLoad(BrowserLocalizationLoader(Str("text")), <<"E", "N">>) = Ret(Obj(EmptyObject))


\* the dictionary has a key whose value is an array
HasPluralKey(dictionary) == \E k \in DOMAIN dictionary : IsArray(dictionary[k])

(* C33: in every state, after any sequence of successful and failed
   rebuilds, every dictionary that load returns for a valid locale and that
   has an array-valued key has a $pluralization descriptor object with a
   rule, and pluralize on it never fails with the TypeError of a missing
   descriptor. *)
C33_PluralKeysHaveDescriptor ==
    \A x \in ValidLocaleInputs :
        LET dictionary == load(x).ret
        IN  HasPluralKey(dictionary) =>
                /\ PLURALIZATION \in DOMAIN dictionary
                /\ IsObjectValue(dictionary[PLURALIZATION])
                /\ "rule" \in DOMAIN dictionary[PLURALIZATION].obj
                /\ \A K \in Keys : pluralize(x, K, MaxCount) # Throw("TypeError")

\* after a failed rebuild (no default dictionary) the dictionary of en has
\* an array and its descriptor, and so has the default dictionary after a
\* successful one
C33_Witness ==
    /\ outcome.event = "error"
    /\ defaultLocale \notin DOMAIN objectCache
    /\ en \in DOMAIN objectCache
    /\ HasPluralKey(load(enGB).ret)
    /\ load(enGB).ret = objectCache[en]
    /\ "rule" \in DOMAIN objectCache[en][PLURALIZATION].obj
    /\ lastCall.op = "pluralize"
    /\ ~IsThrow(lastCall.result)


----------------------------------------------------------------------------
(* Claims about the order of overlapping rebuilds (Spec).                  *)

\* the rebuild `id` ends in this step
Ends(id) == id \in DOMAIN inits /\ id \notin DOMAIN inits'

\* a rebuild triggered after `id` has ended already
LaterEnded(id) == \E later \in (id + 1)..started : later \notin DOMAIN inits

(* C34 as stated: a rebuild that ends after a rebuild triggered later than
   it has ended does not overwrite the committed dictionaries and texts, so
   that with no rebuild in flight the committed state is the result of the
   rebuild triggered last. *)
C34_AsStated ==
    [][\A id \in 1..MaxInits :
          (Ends(id) /\ LaterEnded(id))
              => (objectCache' = objectCache /\ fileCache' = fileCache)]_vars


(* C35 as stated: with no rebuild in flight, every entry of the loading
   cache for a file of a component holds the content that the file has
   since its last 'change' notification. *)
C35_AsStated ==
    DOMAIN inits = {} =>
        \A f \in DOMAIN loadingCache :
            f[1] \in Components =>
                /\ f[2] \in DOMAIN files[f[1]]
                /\ loadingCache[f] = files[f[1]][f[2]]


----------------------------------------------------------------------------
(* Rebuilds in which a source directory fails to load.                     *)

\* the 'error' events of the last finished rebuild: one from the catch of
\* _loadLocalizationsFromPath per failed directory, and the one of _init
ErrorEvents ==
    Cardinality(failed) + (IF outcome.event = "error" THEN 1 ELSE 0)

\* the 'l10nLoaded' events of the last finished rebuild
LoadedEvents == IF Loaded THEN 1 ELSE 0

(* C36 as stated: a finished rebuild has emitted exactly one outcome       *)
(* event, one 'l10nLoaded' or one 'error', also when reading or parsing    *)
(* the files of a source directory failed.                                 *)
C36_AsStated ==
    outcome.event # "none" => ErrorEvents + LoadedEvents = 1

(* C37 as stated: when 'l10nLoaded' was emitted the committed caches hold  *)
(* the default dictionary, load of every valid locale returns a dictionary *)
(* with every key of the default dictionary, and no source of the rebuild  *)
(* failed to load.                                                         *)
C37_AsStated ==
    Loaded =>
        /\ defaultLocale \in DOMAIN objectCache
        /\ DOMAIN fileCache = DOMAIN objectCache
        /\ \A x \in ValidLocaleInputs :
               /\ ~IsThrow(load(x))
               /\ DOMAIN objectCache[defaultLocale] \subseteq DOMAIN load(x).ret
        /\ failed = {}


(* C38: with every started file-system request completing, the rebuild of  *)
(* every trigger ('allComponentsLoaded' or a change notification) ends     *)
(* with an outcome event, also when rebuilds overlap and when a file does  *)
(* not parse: no rebuild stays in flight forever.                          *)
C38_EveryTriggerEnds ==
    \A id \in 1..MaxInits :
        (id \in DOMAIN inits) ~> (id \notin DOMAIN inits /\ outcome.event # "none")

\* the rebuilds of 'allComponentsLoaded' and of a change notification have
\* all ended, the last one with its event after component2's directory
\* failed, and a file of component1 was read
C38_Witness ==
    /\ started = MaxInits
    /\ DOMAIN inits = {}
    /\ failed = {"component2"}
    /\ outcome.event = "l10nLoaded"
    /\ \E f \in DOMAIN loadingCache : f[1] = "component1"


(* C39: a 'change' notification for a file that is not directly inside the *)
(* component's l10n directory starts no rebuild, lets no rebuild advance,  *)
(* emits no event and leaves the committed dictionaries, the serialized    *)
(* texts and the file loading cache as they are.                           *)
C39_ChangeOutsideIsIgnored ==
    [][\A component \in Components : \A filename \in WatchedFiles(component) :
          (OnChange(component, filename) /\ dirname(filename) # l10nDirectory(component))
              => UNCHANGED <<inits, started, outcome, warned, failed, objectCache,
                             fileCache, prepared, sourced, loadingCache, files>>]_vars

\* a file below the l10n directory of component1 was reported while the
\* first rebuild, which has cached a file, is in flight
C39_Witness ==
    /\ notified = Filename(<<"component1", "l10n", "old">>, "en.json")
    /\ started = 1
    /\ 1 \in DOMAIN inits
    /\ DOMAIN loadingCache # {}
    /\ outcome.event = "none"


\* the request that follows `request` and carries, as its only cookie, the
\* one that the Set-Cookie header `setCookie` has set
FollowUp(request, setCookie) ==
    [request EXCEPT !.cookie = localeSetup(setCookie.name, setCookie.value)]

(* C40 as stated: when the middleware has set the locale cookie, a         *)
(* following request that carries the cookie as it was set, under the      *)
(* configured cookie name, resolves to the same locale and gets no new     *)
(* Set-Cookie header, whatever the configured cookie name is.              *)
C40_AsStated ==
    (lastCall.op = "request" /\ lastCall.result.setCookie # NoHeader) =>
        LET next == middleware(lastCall.name,
                               FollowUp(lastCall.request, lastCall.result.setCookie))
        IN  /\ next.locale = lastCall.result.locale
            /\ next.setCookie = NoHeader

====
